---- MODULE Spec2Model ----
(***************************************************************************)
(* Booking session state machine of the dental voice assistant             *)
(* (backend/app/ai_processing/booking_flow_manager.py).                    *)
(*                                                                         *)
(* A Python str is a sequence of one-character strings; None is the        *)
(* distinguished value NoneVal.  The clock is counted in ticks, and        *)
(* TicksPerSecond ticks make one second of datetime.utcnow().timestamp().  *)
(***************************************************************************)
EXTENDS Integers, Sequences, FiniteSets, TLC

VARIABLES active_sessions, now, call, result, inflight

vars == <<active_sessions, now, call, result, inflight>>

---------------------------------------------------------------------------
(* Bounds *)

MaxTime == 2
MaxSessions == 2
TicksPerSecond == 2

CallIds == {"callA", "callB"}

---------------------------------------------------------------------------
(* Python values *)

NoneVal == <<"None">>

Truthy(s) == s /= NoneVal /\ s /= <<>>

Whitespace == {" ", "\t", "\n"}

Digits == {"0", "1", "2", "3", "4", "5", "6", "7", "8", "9"}

Upper == <<"A", "B", "C", "D", "E", "F", "G", "H", "I", "J", "K", "L", "M",
           "N", "O", "P", "Q", "R", "S", "T", "U", "V", "W", "X", "Y", "Z">>

Lower == <<"a", "b", "c", "d", "e", "f", "g", "h", "i", "j", "k", "l", "m",
           "n", "o", "p", "q", "r", "s", "t", "u", "v", "w", "x", "y", "z">>

\* str.lower() on one character
lower_char(c) ==
    IF \E i \in 1..26 : Upper[i] = c
    THEN Lower[CHOOSE i \in 1..26 : Upper[i] = c]
    ELSE c

\* str.lower()
lower(s) == [i \in 1..Len(s) |-> lower_char(s[i])]

\* str.strip()
strip(s) ==
    LET keep == {i \in 1..Len(s) : s[i] \notin Whitespace}
    IN  IF keep = {} THEN <<>>
        ELSE LET first == CHOOSE i \in keep : \A j \in keep : i <= j
                 last  == CHOOSE i \in keep : \A j \in keep : j <= i
             IN  SubSeq(s, first, last)

\* w in s
contains(s, w) ==
    \E i \in 1..(Len(s) - Len(w) + 1) : SubSeq(s, i, i + Len(w) - 1) = w

\* s[a:b] with 0 <= a <= b
slice(s, a, b) ==
    LET hi == IF b < Len(s) THEN b ELSE Len(s)
    IN  IF a >= hi THEN <<>> ELSE SubSeq(s, a + 1, hi)

\* s[a:]
slice_from(s, a) == slice(s, a, Len(s))

IsDigit(c) == c \in Digits

\* re.sub(r'\D', '', phone)
digits_only(phone) == SelectSeq(phone, IsDigit)

---------------------------------------------------------------------------
(* BookingStep *)

INITIAL_INTENT     == "initial_intent"
GATHER_NAME        == "gather_name"
GATHER_PHONE       == "gather_phone"
GATHER_SERVICE     == "gather_service"
CONFIRM_DETAILS    == "confirm_details"
CHECK_AVAILABILITY == "check_availability"
SELECT_SLOT        == "select_slot"
FINAL_CONFIRMATION == "final_confirmation"
COMPLETED          == "completed"

BookingStep == <<INITIAL_INTENT, GATHER_NAME, GATHER_PHONE, GATHER_SERVICE,
                 CONFIRM_DETAILS, CHECK_AVAILABILITY, SELECT_SLOT,
                 FINAL_CONFIRMATION, COMPLETED>>

\* position of a step in the declared order
StepIndex(step) == CHOOSE i \in 1..Len(BookingStep) : BookingStep[i] = step

---------------------------------------------------------------------------
(* BookingSession *)

BookingSession(session_id, call_id, current_step, t) ==
    [session_id     |-> session_id,
     call_id        |-> call_id,
     current_step   |-> current_step,
     customer_name  |-> NoneVal,
     customer_phone |-> NoneVal,
     service_type   |-> NoneVal,
     urgency        |-> "normal",
     preferred_date |-> NoneVal,
     preferred_time |-> NoneVal,
     selected_slot  |-> NoneVal,
     created_at     |-> t,
     updated_at     |-> t]

\* f"booking_{call_id}_{int(datetime.utcnow().timestamp())}"
make_session_id(call_id, t) == <<call_id, t \div TicksPerSecond>>

SessionIds == {make_session_id(c, t) : c \in CallIds, t \in 0..MaxTime}

---------------------------------------------------------------------------
(* Field normalisation *)

\* a variant that rejects what it cannot format
clean_phone_number_strict(phone) ==
    LET d == digits_only(phone)
    IN  IF Len(d) = 10
        THEN <<"(">> \o slice(d, 0, 3) \o <<")", " ">> \o slice(d, 3, 6)
                     \o <<"-">> \o slice_from(d, 6)
        ELSE IF Len(d) = 11 /\ d[1] = "1"
        THEN <<"(">> \o slice(d, 1, 4) \o <<")", " ">> \o slice(d, 3, 6)
                     \o <<"-">> \o slice_from(d, 6)
        ELSE <<>>

\* BookingFlowManager._clean_phone_number
clean_phone_number(phone) ==
    LET d == digits_only(phone)
    IN  IF Len(d) = 10
        THEN <<"(">> \o slice(d, 0, 3) \o <<")", " ">> \o slice(d, 3, 6)
                     \o <<"-">> \o slice_from(d, 6)
        ELSE IF Len(d) = 11 /\ d[1] = "1"
        THEN <<"(">> \o slice(d, 1, 4) \o <<")", " ">> \o slice(d, 3, 6)
                     \o <<"-">> \o slice_from(d, 6)
        ELSE strip(phone)

service_mapping ==
    <<
      [standard_service |-> <<"c", "l", "e", "a", "n", "i", "n", "g">>,
       variations |->
         << <<"c", "l", "e", "a", "n", "i", "n", "g">>,
           <<"h", "y", "g", "i", "e", "n", "e">>,
           <<"p", "r", "o", "p", "h", "y", "l", "a", "x", "i", "s">>,
           <<"r", "o", "u", "t", "i", "n", "e", " ", "c", "l", "e", "a", "n", "i", "n", "g">>>>],
      [standard_service |-> <<"c", "h", "e", "c", "k", "u", "p">>,
       variations |->
         << <<"c", "h", "e", "c", "k", "u", "p">>,
           <<"e", "x", "a", "m">>,
           <<"c", "o", "n", "s", "u", "l", "t", "a", "t", "i", "o", "n">>,
           <<"i", "n", "s", "p", "e", "c", "t", "i", "o", "n">>,
           <<"e", "v", "a", "l", "u", "a", "t", "i", "o", "n">>>>],
      [standard_service |-> <<"e", "m", "e", "r", "g", "e", "n", "c", "y">>,
       variations |->
         << <<"e", "m", "e", "r", "g", "e", "n", "c", "y">>,
           <<"u", "r", "g", "e", "n", "t">>,
           <<"p", "a", "i", "n">>,
           <<"b", "r", "o", "k", "e", "n">>,
           <<"l", "o", "s", "t">>>>],
      [standard_service |-> <<"f", "i", "l", "l", "i", "n", "g">>,
       variations |->
         << <<"f", "i", "l", "l", "i", "n", "g">>,
           <<"c", "a", "v", "i", "t", "y">>,
           <<"d", "e", "c", "a", "y">>,
           <<"h", "o", "l", "e", " ", "i", "n", " ", "t", "o", "o", "t", "h">>>>],
      [standard_service |-> <<"c", "r", "o", "w", "n">>,
       variations |->
         << <<"c", "r", "o", "w", "n">>,
           <<"c", "a", "p">>,
           <<"r", "e", "s", "t", "o", "r", "a", "t", "i", "o", "n">>,
           <<"d", "e", "n", "t", "a", "l", " ", "c", "r", "o", "w", "n">>>>],
      [standard_service |-> <<"r", "o", "o", "t", "_", "c", "a", "n", "a", "l">>,
       variations |->
         << <<"r", "o", "o", "t", " ", "c", "a", "n", "a", "l">>,
           <<"e", "n", "d", "o", "d", "o", "n", "t", "i", "c">>,
           <<"n", "e", "r", "v", "e", " ", "t", "r", "e", "a", "t", "m", "e", "n", "t">>>>],
      [standard_service |-> <<"e", "x", "t", "r", "a", "c", "t", "i", "o", "n">>,
       variations |->
         << <<"e", "x", "t", "r", "a", "c", "t", "i", "o", "n">>,
           <<"p", "u", "l", "l", " ", "t", "o", "o", "t", "h">>,
           <<"r", "e", "m", "o", "v", "e", " ", "t", "o", "o", "t", "h">>,
           <<"t", "a", "k", "e", " ", "o", "u", "t">>>>],
      [standard_service |-> <<"w", "h", "i", "t", "e", "n", "i", "n", "g">>,
       variations |->
         << <<"w", "h", "i", "t", "e", "n", "i", "n", "g">>,
           <<"b", "l", "e", "a", "c", "h", "i", "n", "g">>,
           <<"t", "e", "e", "t", "h", " ", "w", "h", "i", "t", "e", "n", "i", "n", "g">>,
           <<"b", "r", "i", "g", "h", "t", "e", "n">>>>],
      [standard_service |-> <<"b", "r", "a", "c", "e", "s">>,
       variations |->
         << <<"b", "r", "a", "c", "e", "s">>,
           <<"o", "r", "t", "h", "o", "d", "o", "n", "t", "i", "c">>,
           <<"s", "t", "r", "a", "i", "g", "h", "t", "e", "n", " ", "t", "e", "e", "t", "h">>,
           <<"a", "l", "i", "g", "n", "m", "e", "n", "t">>>>],
      [standard_service |-> <<"i", "m", "p", "l", "a", "n", "t">>,
       variations |->
         << <<"i", "m", "p", "l", "a", "n", "t">>,
           <<"d", "e", "n", "t", "a", "l", " ", "i", "m", "p", "l", "a", "n", "t">>,
           <<"r", "e", "p", "l", "a", "c", "e", "m", "e", "n", "t", " ", "t", "o", "o", "t", "h">>>>]
    >>

\* any(var in service_lower for var in variations)
matches_service(service_lower, entry) ==
    \E k \in 1..Len(entry.variations) : contains(service_lower, entry.variations[k])

\* a variant in which the last matching category wins
normalize_service_type_last(service) ==
    LET service_lower == lower(service)
        hits == {i \in 1..Len(service_mapping) :
                    matches_service(service_lower, service_mapping[i])}
    IN  IF hits /= {}
        THEN service_mapping[CHOOSE i \in hits : \A j \in hits : i >= j].standard_service
        ELSE strip(service)

\* BookingFlowManager._normalize_service_type
normalize_service_type(service) ==
    LET service_lower == lower(service)
        hits == {i \in 1..Len(service_mapping) :
                    matches_service(service_lower, service_mapping[i])}
    IN  IF hits /= {}
        THEN service_mapping[CHOOSE i \in hits : \A j \in hits : i <= j].standard_service
        ELSE strip(service)

---------------------------------------------------------------------------
(* Confirmation step *)

positive_words ==
    << <<"y", "e", "s">>,
      <<"y", "e", "a", "h">>,
      <<"y", "e", "p">>,
      <<"c", "o", "r", "r", "e", "c", "t">>,
      <<"r", "i", "g", "h", "t">>,
      <<"t", "h", "a", "t", "'", "s", " ", "r", "i", "g", "h", "t">>,
      <<"s", "o", "u", "n", "d", "s", " ", "g", "o", "o", "d">>>>

\* a variant that compares without lower-casing
is_confirmation_positive_cased(response) ==
    \E k \in 1..Len(positive_words) : contains(response, positive_words[k])

\* BookingFlowManager._is_confirmation_positive, for a str response
is_confirmation_positive(response) ==
    \E k \in 1..Len(positive_words) : contains(lower(response), positive_words[k])

W_name == <<"n", "a", "m", "e">>
W_phone == <<"p", "h", "o", "n", "e">>
W_number == <<"n", "u", "m", "b", "e", "r">>
W_service == <<"s", "e", "r", "v", "i", "c", "e">>
W_appointment == <<"a", "p", "p", "o", "i", "n", "t", "m", "e", "n", "t">>


\* a variant without the gather_service branch
update_session_with_response_no_service(session, response, t) ==
    LET written ==
            IF session.current_step = GATHER_NAME
            THEN [session EXCEPT !.customer_name = strip(response)]
            ELSE IF session.current_step = GATHER_PHONE
            THEN [session EXCEPT !.customer_phone = clean_phone_number(response)]
            ELSE session
    IN  [written EXCEPT !.updated_at = t]

\* a variant that takes the first utterance of the call as the name
update_session_with_response_eager(session, response, t) ==
    LET written ==
            IF session.current_step \in {INITIAL_INTENT, GATHER_NAME}
            THEN [session EXCEPT !.customer_name = strip(response)]
            ELSE IF session.current_step = GATHER_PHONE
            THEN [session EXCEPT !.customer_phone = clean_phone_number(response)]
            ELSE IF session.current_step = GATHER_SERVICE
            THEN [session EXCEPT !.service_type = normalize_service_type(response)]
            ELSE session
    IN  [written EXCEPT !.updated_at = t]

\* a variant that stores the name as it was said
update_session_with_response_unstripped(session, response, t) ==
    LET written ==
            IF session.current_step = GATHER_NAME
            THEN [session EXCEPT !.customer_name = response]
            ELSE IF session.current_step = GATHER_PHONE
            THEN [session EXCEPT !.customer_phone = clean_phone_number(response)]
            ELSE IF session.current_step = GATHER_SERVICE
            THEN [session EXCEPT !.service_type = normalize_service_type(response)]
            ELSE session
    IN  [written EXCEPT !.updated_at = t]

\* a variant that files the answer to the phone question under the name
update_session_with_response_misfiled(session, response, t) ==
    LET written ==
            IF session.current_step = GATHER_NAME
            THEN [session EXCEPT !.customer_name = strip(response)]
            ELSE IF session.current_step = GATHER_PHONE
            THEN [session EXCEPT !.customer_name = clean_phone_number(response)]
            ELSE IF session.current_step = GATHER_SERVICE
            THEN [session EXCEPT !.service_type = normalize_service_type(response)]
            ELSE session
    IN  [written EXCEPT !.updated_at = t]

\* BookingFlowManager._update_session_with_response
update_session_with_response(session, response, t) ==
    LET written ==
            IF session.current_step = GATHER_NAME
            THEN [session EXCEPT !.customer_name = strip(response)]
            ELSE IF session.current_step = GATHER_PHONE
            THEN [session EXCEPT !.customer_phone = clean_phone_number(response)]
            ELSE IF session.current_step = GATHER_SERVICE
            THEN [session EXCEPT !.service_type = normalize_service_type(response)]
            ELSE session
    IN  [written EXCEPT !.updated_at = t]

\* a variant that restarts the conversation when the name is wrong
correction_target_restart(current_step, response_lower) ==
    IF contains(response_lower, W_name) THEN INITIAL_INTENT
    ELSE IF contains(response_lower, W_phone) \/ contains(response_lower, W_number)
    THEN GATHER_PHONE
    ELSE IF contains(response_lower, W_service) \/ contains(response_lower, W_appointment)
    THEN GATHER_SERVICE
    ELSE current_step

\* a variant that looks for the phone words first
correction_target_phone_first(current_step, response_lower) ==
    IF contains(response_lower, W_phone) \/ contains(response_lower, W_number)
    THEN GATHER_PHONE
    ELSE IF contains(response_lower, W_name) THEN GATHER_NAME
    ELSE IF contains(response_lower, W_service) \/ contains(response_lower, W_appointment)
    THEN GATHER_SERVICE
    ELSE current_step

\* the step a correction request regresses to, or the step itself
correction_target(current_step, response_lower) ==
    IF contains(response_lower, W_name) THEN GATHER_NAME
    ELSE IF contains(response_lower, W_phone) \/ contains(response_lower, W_number)
    THEN GATHER_PHONE
    ELSE IF contains(response_lower, W_service) \/ contains(response_lower, W_appointment)
    THEN GATHER_SERVICE
    ELSE current_step

\* the dict _handle_confirmation_changes returns for the branch it took
correction_reply(session, target) ==
    [question |->
        IF target = GATHER_NAME
        THEN <<"What would you like to change your name to?">>
        ELSE IF target = GATHER_PHONE
        THEN <<"What's the correct phone number?">>
        ELSE IF target = GATHER_SERVICE
        THEN <<"What type of appointment do you need?">>
        ELSE <<"I'm not sure what you'd like to change. Could you please specify: name, phone, or service?">>,
     step |-> target,
     session_id |-> session.session_id,
     requires_response |-> TRUE,
     step_description |->
        IF target = GATHER_NAME THEN "Updating customer name"
        ELSE IF target = GATHER_PHONE THEN "Updating phone number"
        ELSE IF target = GATHER_SERVICE THEN "Updating service type"
        ELSE "Clarifying changes"]

\* a variant that clears the field it is about to ask again
handle_confirmation_changes_clearing(session, response) ==
    LET target == correction_target(session.current_step, lower(response))
        moved == [session EXCEPT !.current_step = target]
    IN  [session |->
            IF target = GATHER_NAME THEN [moved EXCEPT !.customer_name = NoneVal]
            ELSE IF target = GATHER_PHONE THEN [moved EXCEPT !.customer_phone = NoneVal]
            ELSE IF target = GATHER_SERVICE THEN [moved EXCEPT !.service_type = NoneVal]
            ELSE moved,
         result |-> correction_reply(session, target)]

\* BookingFlowManager._handle_confirmation_changes, for a str response
handle_confirmation_changes(session, response) ==
    LET target == correction_target(session.current_step, lower(response))
    IN  [session |-> [session EXCEPT !.current_step = target],
         result |-> correction_reply(session, target)]

\* BookingFlowManager._generate_confirmation_question
generate_confirmation_question(session) ==
    <<"Let me confirm your details:\n* Name: ", session.customer_name,
      "\n* Phone: ", session.customer_phone,
      "\n* Service: ", session.service_type,
      "\n\nIs this correct? Please say 'yes' to confirm or 'no' if you need to change anything.">>

---------------------------------------------------------------------------
(* BookingFlowManager *)

\* the branch of get_next_question for the session's step, after the update
next_question(session, session_id, user_response) ==
    IF session.current_step = INITIAL_INTENT
    THEN [session |-> [session EXCEPT !.current_step = GATHER_NAME],
          result |->
            [question |-> <<"Great! I'd be happy to help you schedule an appointment. What's your name?">>,
             step |-> GATHER_NAME,
             session_id |-> session_id,
             requires_response |-> TRUE,
             step_description |-> "Gathering customer name"]]
    ELSE IF session.current_step = GATHER_NAME
    THEN IF ~Truthy(session.customer_name)
         THEN [session |-> session,
               result |->
                 [question |-> <<"I didn't catch your name. Could you please tell me your full name?">>,
                  step |-> session.current_step,
                  session_id |-> session_id,
                  requires_response |-> TRUE,
                  step_description |-> "Gathering customer name"]]
         ELSE [session |-> [session EXCEPT !.current_step = GATHER_PHONE],
               result |->
                 [question |-> <<"Thank you, ", session.customer_name,
                                 ". What's the best phone number to reach you?">>,
                  step |-> GATHER_PHONE,
                  session_id |-> session_id,
                  requires_response |-> TRUE,
                  step_description |-> "Gathering phone number"]]
    ELSE IF session.current_step = GATHER_PHONE
    THEN IF ~Truthy(session.customer_phone)
         THEN [session |-> session,
               result |->
                 [question |-> <<"I didn't get your phone number. Could you please repeat it?">>,
                  step |-> session.current_step,
                  session_id |-> session_id,
                  requires_response |-> TRUE,
                  step_description |-> "Gathering phone number"]]
         ELSE [session |-> [session EXCEPT !.current_step = GATHER_SERVICE],
               result |->
                 [question |-> <<"What type of appointment do you need? For example: cleaning, checkup, consultation, or something specific?">>,
                  step |-> GATHER_SERVICE,
                  session_id |-> session_id,
                  requires_response |-> TRUE,
                  step_description |-> "Gathering service type"]]
    ELSE IF session.current_step = GATHER_SERVICE
    THEN IF ~Truthy(session.service_type)
         THEN [session |-> session,
               result |->
                 [question |-> <<"I didn't catch what service you need. Could you please tell me again?">>,
                  step |-> session.current_step,
                  session_id |-> session_id,
                  requires_response |-> TRUE,
                  step_description |-> "Gathering service type"]]
         ELSE [session |-> [session EXCEPT !.current_step = CONFIRM_DETAILS],
               result |->
                 [question |-> generate_confirmation_question(session),
                  step |-> CONFIRM_DETAILS,
                  session_id |-> session_id,
                  requires_response |-> TRUE,
                  step_description |-> "Confirming details",
                  confirmation_data |->
                    [name |-> session.customer_name,
                     phone |-> session.customer_phone,
                     service |-> session.service_type]]]
    ELSE IF session.current_step = CONFIRM_DETAILS
    THEN IF user_response = NoneVal
         \* None.lower() in _is_confirmation_positive
         THEN [session |-> session, result |-> [raises |-> "AttributeError"]]
         ELSE IF is_confirmation_positive(user_response)
         THEN [session |-> [session EXCEPT !.current_step = CHECK_AVAILABILITY],
               result |->
                 [question |-> <<"Perfect! Let me check our available appointment times...">>,
                  step |-> CHECK_AVAILABILITY,
                  session_id |-> session_id,
                  requires_response |-> FALSE,
                  step_description |-> "Checking availability",
                  next_action |-> "check_availability"]]
         ELSE handle_confirmation_changes(session, user_response)
    ELSE [session |-> session, result |-> [error |-> "Unknown step"]]

\* get_next_question that stamps every session of the mapping with the time
\* of the call, not only the one addressed
get_next_question_stamping_all(sessions, session_id, user_response, t) ==
    IF session_id \notin DOMAIN sessions
    THEN [sessions |-> sessions, result |-> [error |-> "Session not found"]]
    ELSE LET session ==
                 IF Truthy(user_response)
                 THEN update_session_with_response(sessions[session_id], user_response, t)
                 ELSE sessions[session_id]
             out == next_question(session, session_id, user_response)
         IN  [sessions |->
                 [k \in DOMAIN sessions |->
                     IF k = session_id THEN out.session
                     ELSE IF Truthy(user_response)
                          THEN [sessions[k] EXCEPT !.updated_at = t]
                          ELSE sessions[k]],
              result |-> out.result]

\* a variant that opens a session for an id it does not know
get_next_question_creating(sessions, session_id, user_response, t) ==
    LET known ==
            [k \in DOMAIN sessions \cup {session_id} |->
                IF k \in DOMAIN sessions THEN sessions[k]
                ELSE BookingSession(session_id, session_id[1], INITIAL_INTENT, t)]
        session ==
            IF Truthy(user_response)
            THEN update_session_with_response(known[session_id], user_response, t)
            ELSE known[session_id]
        out == next_question(session, session_id, user_response)
    IN  [sessions |-> [known EXCEPT ![session_id] = out.session],
         result |-> out.result]

\* a variant that deletes the session once the details are confirmed
get_next_question_completing(sessions, session_id, user_response, t) ==
    IF session_id \notin DOMAIN sessions
    THEN [sessions |-> sessions, result |-> [error |-> "Session not found"]]
    ELSE LET session ==
                 IF Truthy(user_response)
                 THEN update_session_with_response(sessions[session_id], user_response, t)
                 ELSE sessions[session_id]
             out == next_question(session, session_id, user_response)
         IN  [sessions |->
                 IF out.session.current_step = CHECK_AVAILABILITY
                 THEN [k \in DOMAIN sessions \ {session_id} |-> sessions[k]]
                 ELSE [sessions EXCEPT ![session_id] = out.session],
              result |-> out.result]

\* BookingFlowManager.get_next_question called at time t
get_next_question(sessions, session_id, user_response, t) ==
    IF session_id \notin DOMAIN sessions
    THEN [sessions |-> sessions, result |-> [error |-> "Session not found"]]
    ELSE LET session ==
                 IF Truthy(user_response)
                 THEN update_session_with_response(sessions[session_id], user_response, t)
                 ELSE sessions[session_id]
             out == next_question(session, session_id, user_response)
         IN  [sessions |-> [sessions EXCEPT ![session_id] = out.session],
              result |-> out.result]

\* datetime.isoformat(): the text of a timestamp
isoformat(t) == [isoformat |-> t]

\* a variant that reports the creation time twice
get_session_summary_created_twice(sessions, session_id) ==
    IF session_id \notin DOMAIN sessions
    THEN [returns |-> NoneVal]
    ELSE LET session == sessions[session_id]
         IN  [session_id |-> session.session_id,
              current_step |-> session.current_step,
              customer_name |-> session.customer_name,
              customer_phone |-> session.customer_phone,
              service_type |-> session.service_type,
              urgency |-> session.urgency,
              created_at |-> isoformat(session.created_at),
              updated_at |-> isoformat(session.created_at)]

\* BookingFlowManager.get_session_summary
get_session_summary(sessions, session_id) ==
    IF session_id \notin DOMAIN sessions
    THEN [returns |-> NoneVal]
    ELSE LET session == sessions[session_id]
         IN  [session_id |-> session.session_id,
              current_step |-> session.current_step,
              customer_name |-> session.customer_name,
              customer_phone |-> session.customer_phone,
              service_type |-> session.service_type,
              urgency |-> session.urgency,
              created_at |-> isoformat(session.created_at),
              updated_at |-> isoformat(session.updated_at)]

\* a variant that reports success without deleting
end_session_kept(sessions, session_id) ==
    [sessions |-> sessions,
     result |-> [returns |-> session_id \in DOMAIN sessions]]

\* a variant that only ends conversations that were completed
end_session_completed_only(sessions, session_id) ==
    IF session_id \in DOMAIN sessions /\ sessions[session_id].current_step = COMPLETED
    THEN [sessions |-> [k \in DOMAIN sessions \ {session_id} |-> sessions[k]],
          result |-> [returns |-> TRUE]]
    ELSE [sessions |-> sessions, result |-> [returns |-> FALSE]]

\* BookingFlowManager.end_session
end_session(sessions, session_id) ==
    IF session_id \in DOMAIN sessions
    THEN [sessions |-> [k \in DOMAIN sessions \ {session_id} |-> sessions[k]],
          result |-> [returns |-> TRUE]]
    ELSE [sessions |-> sessions, result |-> [returns |-> FALSE]]

\* BookingFlowManager.get_active_sessions_count
get_active_sessions_count(sessions) == Cardinality(DOMAIN sessions)

---------------------------------------------------------------------------
(* Caller utterances *)

U_empty == <<>>
U_blank == <<" ">>
U_Yes == <<"Y", "e", "s">>
U_wrong_phone == <<"n", "o", ",", " ", "w", "r", "o", "n", "g", " ", "p", "h", "o", "n", "e", " ", "n", "u", "m", "b", "e", "r">>
U_change_name == <<"c", "h", "a", "n", "g", "e", " ", "m", "y", " ", "n", "a", "m", "e">>
U_exam_appointment == <<"e", "x", "a", "m", " ", "a", "p", "p", "o", "i", "n", "t", "m", "e", "n", "t">>
U_jane == <<" ", "J", "a", "n", "e", " ", "D", "o", "e">>
U_phone10 == <<"5", "5", "5", "-", "1", "1", "1", "-", "2", "2", "2", "2">>
U_phone11 == <<"1", "5", "5", "5", "1", "2", "3", "4", "5", "6", "7">>
U_cavity == <<"I", " ", "h", "a", "v", "e", " ", "a", " ", "c", "a", "v", "i", "t", "y">>
U_no == <<"n", "o">>
U_name == <<"n", "a", "m", "e">>
U_phone == <<"p", "h", "o", "n", "e">>
U_number == <<"n", "u", "m", "b", "e", "r">>
U_service == <<"s", "e", "r", "v", "i", "c", "e">>
U_appointment == <<"a", "p", "p", "o", "i", "n", "t", "m", "e", "n", "t">>
U_name_number == <<"n", "a", "m", "e", " ", "o", "r", " ", "n", "u", "m", "b", "e", "r">>
U_phone_service == <<"p", "h", "o", "n", "e", " ", "a", "n", "d", " ", "s", "e", "r", "v", "i", "c", "e">>
U_name_is_right == <<"n", "a", "m", "e", " ", "i", "s", " ", "r", "i", "g", "h", "t">>
U_SOUNDS_GOOD == <<"S", "O", "U", "N", "D", "S", " ", "G", "O", "O", "D">>
U_yeah_phone == <<"y", "e", "a", "h", " ", "b", "u", "t", " ", "t", "h", "e", " ", "p", "h", "o", "n", "e">>

\* what a caller may say at any point of one conversation
Utterances ==
    {NoneVal, U_empty, U_blank, U_Yes, U_wrong_phone, U_change_name,
     U_exam_appointment, U_jane, U_phone10, U_phone11}

\* a caller's replies to the confirmation question
Confirmations ==
    {U_empty, U_Yes, U_no, U_name, U_phone, U_number, U_service, U_appointment,
     U_wrong_phone, U_name_number, U_phone_service, U_name_is_right,
     U_SOUNDS_GOOD, U_yeah_phone, U_jane}

\* the ways a caller may say a phone number: an optional prefix, then three
\* groups of digits with or without a separator
PhonePrefixes == {<<>>, <<"1">>, <<"2">>, <<"+", "1", " ">>, <<" ">>}
PhoneAreas == {<<"5", "5", "5">>, <<"2", "1", "2">>}
PhoneExchanges == {<<"1", "2", "3">>, <<"9", "8", "7">>}
PhoneLines == {<<"4", "5", "6", "7">>, <<"0", "0", "0", "1">>, <<"4", "5", "6">>,
               <<"4", "5", "6", "7", "8">>}
PhoneSeparators == {<<>>, <<"-">>}

PhoneInputs ==
    {pre \o a \o sep \o b \o sep \o c :
        pre \in PhonePrefixes, a \in PhoneAreas, sep \in PhoneSeparators,
        b \in PhoneExchanges, c \in PhoneLines}
    \cup {U_blank, U_jane, <<"a", "b", "c">>, <<" ", "1", "2", "3", " ">>}

\* what a caller who answers the question asked says at each step
Said(current_step) ==
    IF current_step = GATHER_NAME THEN {NoneVal, U_jane}
    ELSE IF current_step = GATHER_PHONE THEN {NoneVal} \cup PhoneInputs
    ELSE IF current_step = GATHER_SERVICE THEN {NoneVal, U_cavity}
    ELSE IF current_step = CONFIRM_DETAILS THEN Confirmations
    ELSE {NoneVal}

\* what callers say when several conversations run side by side
Replies == {NoneVal, U_Yes}

\* what callers say they need: compound, mixed-case and unknown requests
U_emergency_cleaning == <<"e", "m", "e", "r", "g", "e", "n", "c", "y", " ", "c", "l", "e", "a", "n", "i", "n", "g">>
U_Broken_crown == <<"B", "r", "o", "k", "e", "n", " ", "c", "r", "o", "w", "n">>
U_escape == <<"e", "s", "c", "a", "p", "e">>
U_painful_implant == <<"p", "a", "i", "n", "f", "u", "l", " ", "i", "m", "p", "l", "a", "n", "t">>
U_exam_for_braces == <<"e", "x", "a", "m", " ", "f", "o", "r", " ", "b", "r", "a", "c", "e", "s">>
U_URGENT == <<"U", "R", "G", "E", "N", "T">>
U_Teeth_Whitening == <<" ", "T", "e", "e", "t", "h", " ", "W", "h", "i", "t", "e", "n", "i", "n", "g", " ", "p", "l", "e", "a", "s", "e", " ">>
U_mystery == <<" ", " ", "M", "y", "s", "t", "e", "r", "y", " ", "a", "i", "l", "m", "e", "n", "t", " ">>
U_Root_Canal == <<"R", "o", "o", "t", "_", "C", "a", "n", "a", "l">>
U_lost_filling == <<"I", " ", "l", "o", "s", "t", " ", "a", " ", "f", "i", "l", "l", "i", "n", "g">>
U_crown_whitening == <<"c", "r", "o", "w", "n", " ", "w", "h", "i", "t", "e", "n", "i", "n", "g">>
U_implant_braces == <<"i", "m", "p", "l", "a", "n", "t", " ", "o", "r", " ", "b", "r", "a", "c", "e", "s">>
U_veneers == <<"V", "e", "n", "e", "e", "r", "s">>

\* every synonym of the mapping said on its own
Synonyms ==
    UNION {{service_mapping[i].variations[k] :
                k \in 1..Len(service_mapping[i].variations)} :
           i \in 1..Len(service_mapping)}

ServiceInputs ==
    Synonyms \cup
    {U_blank, U_cavity, U_exam_appointment,
     U_emergency_cleaning, U_Broken_crown, U_escape, U_painful_implant,
     U_exam_for_braces, U_URGENT, U_Teeth_Whitening, U_mystery,
     U_Root_Canal, U_lost_filling, U_crown_whitening, U_implant_braces,
     U_veneers}

\* what a caller who is asked for the service says at each step
SaidForService(current_step) ==
    IF current_step = GATHER_NAME THEN {NoneVal, U_jane}
    ELSE IF current_step = GATHER_PHONE THEN {U_phone10, U_phone11}
    ELSE IF current_step = GATHER_SERVICE THEN {NoneVal} \cup ServiceInputs
    ELSE IF current_step = CONFIRM_DETAILS THEN {U_Yes, U_service}
    ELSE {NoneVal}

---------------------------------------------------------------------------
(* Intent recognition (backend/app/ai_processing/dental_faq_matcher.py).   *)
(* A float is the exact ratio it rounds: [num, den] with den > 0.          *)

Ratio(num, den) == [num |-> num, den |-> den]

Zero == Ratio(0, 1)

\* a < b, a <= b and a = b on floats
Less(a, b) == a.num * b.den < b.num * a.den

AtMost(a, b) == a.num * b.den <= b.num * a.den

Same(a, b) == a.num * b.den = b.num * a.den

\* max(a, b): the first argument is kept unless the second is greater
Max(a, b) == IF Less(a, b) THEN b ELSE a

\* the characters re's \w matches
WordChars == {Lower[i] : i \in 1..26} \cup {Upper[i] : i \in 1..26} \cup Digits \cup {"_"}

\* str.split(): the runs of characters that are not whitespace, in order
split(text) ==
    LET starts == {i \in 1..Len(text) :
                      text[i] \notin Whitespace /\ (i = 1 \/ text[i - 1] \in Whitespace)}
        end_of(i) == CHOOSE j \in i..Len(text) :
                        /\ \A k \in i..j : text[k] \notin Whitespace
                        /\ (j = Len(text) \/ text[j + 1] \in Whitespace)
        start(n) == CHOOSE i \in starts : Cardinality({j \in starts : j < i}) = n - 1
    IN  [n \in 1..Cardinality(starts) |-> SubSeq(text, start(n), end_of(start(n)))]

\* sep.join(parts): the first half, the separator and the second half
RECURSIVE join(_, _)
join(sep, parts) ==
    IF parts = <<>> THEN <<>>
    ELSE IF Len(parts) = 1 THEN parts[1]
    ELSE join(sep, SubSeq(parts, 1, Len(parts) \div 2))
           \o sep
           \o join(sep, SubSeq(parts, Len(parts) \div 2 + 1, Len(parts)))

\* re.sub(r'[^\w\s]', ' ', text)
remove_punctuation(text) ==
    [i \in 1..Len(text) |->
        IF text[i] \in WordChars \cup Whitespace THEN text[i] ELSE " "]

\* the whole-word substitutions of _normalize_text, in the order of the dict
normalizations ==
    << [words |-> {<<"u">>}, replacement |-> <<"y", "o", "u">>],
       [words |-> {<<"u", "r">>}, replacement |-> <<"y", "o", "u", "r">>],
       [words |-> {<<"h", "r">>, <<"h", "r", "s">>},
        replacement |-> <<"h", "o", "u", "r", "s">>],
       [words |-> {<<"a", "p", "p", "t">>},
        replacement |-> <<"a", "p", "p", "o", "i", "n", "t", "m", "e", "n", "t">>],
       [words |-> {<<"d", "e", "n", "t", "i", "s", "t">>},
        replacement |-> <<"d", "e", "n", "t", "a", "l">>],
       [words |-> {<<"d", "o", "c">>},
        replacement |-> <<"d", "o", "c", "t", "o", "r">>] >>

\* the substitutions applied one after the other to one word: after the
\* punctuation is gone, \b...\b matches exactly a whole word
RECURSIVE normalize_word(_, _)
normalize_word(word, k) ==
    IF k > Len(normalizations) THEN word
    ELSE normalize_word(IF word \in normalizations[k].words
                        THEN normalizations[k].replacement
                        ELSE word,
                        k + 1)

\* DentalFAQMatcher._normalize_text
normalize_text(text) ==
    IF ~Truthy(text) THEN <<>>
    ELSE LET words == split(remove_punctuation(strip(lower(text))))
         IN  join(<<" ">>, [i \in 1..Len(words) |-> normalize_word(words[i], 1)])

\* the least number of a set of numbers
least(numbers) == CHOOSE n \in numbers : \A other \in numbers : n <= other

\* the length of the run on which a from i and b from j agree: the first
\* place at which they differ, or the end of either
run_length(a, i, ahi, b, j, bhi) ==
    least({k \in 0..(IF ahi - i < bhi - j THEN ahi - i ELSE bhi - j) : a[i + k] /= b[j + k]}
            \cup {IF ahi - i < bhi - j THEN ahi - i + 1 ELSE bhi - j + 1})

\* of the blocks of one size that start at i in a, the earliest in b
earliest_in_b(blocks, size, i) ==
    [i |-> i,
     j |-> least({block.j : block \in {x \in blocks : x.size = size /\ x.i = i}}),
     size |-> size]

\* of the blocks of one size, the earliest in a
earliest_in_a(blocks, size, alo, blo) ==
    IF size = 0 THEN [i |-> alo, j |-> blo, size |-> 0]
    ELSE earliest_in_b(blocks, size,
                       least({block.i : block \in {x \in blocks : x.size = size}}))

\* of the runs that start at each i and j, one of the longest
longest_block(blocks, alo, blo) ==
    earliest_in_a(blocks,
                  CHOOSE size \in {block.size : block \in blocks} \cup {0} :
                     \A block \in blocks : block.size <= size,
                  alo, blo)

\* SequenceMatcher.find_longest_match on a[alo..ahi] and b[blo..bhi]: the
\* longest block, of those the one earliest in a, of those the earliest in b
find_longest_match(a, alo, ahi, b, blo, bhi) ==
    longest_block({[i |-> i, j |-> j, size |-> run_length(a, i, ahi, b, j, bhi)] :
                      i \in alo..ahi, j \in blo..bhi},
                  alo, blo)

\* the total size of SequenceMatcher.get_matching_blocks: the longest block
\* and the blocks to its left and to its right
RECURSIVE matching_size(_, _, _, _, _, _)
RECURSIVE matching_size_around(_, _, _, _, _, _, _)
matching_size_around(a, alo, ahi, b, blo, bhi, block) ==
    IF block.size = 0 THEN 0
    ELSE block.size
           + matching_size(a, alo, block.i - 1, b, blo, block.j - 1)
           + matching_size(a, block.i + block.size, ahi, b, block.j + block.size, bhi)

matching_size(a, alo, ahi, b, blo, bhi) ==
    IF alo > ahi \/ blo > bhi THEN 0
    ELSE matching_size_around(a, alo, ahi, b, blo, bhi,
                              find_longest_match(a, alo, ahi, b, blo, bhi))

\* SequenceMatcher(None, a, b).ratio()
sequence_ratio(a, b) ==
    IF Len(a) + Len(b) = 0 THEN Ratio(1, 1)
    ELSE Ratio(2 * matching_size(a, 1, Len(a), b, 1, Len(b)), Len(a) + Len(b))

\* DentalFAQMatcher._keyword_similarity
keyword_similarity(text1, text2) ==
    LET split1 == split(text1)
        split2 == split(text2)
        words1 == {split1[i] : i \in 1..Len(split1)}
        words2 == {split2[i] : i \in 1..Len(split2)}
        size1 == Cardinality(words1)
        size2 == Cardinality(words2)
    IN  IF words1 = {} \/ words2 = {} THEN Zero
        ELSE Ratio(Cardinality(words1 \cap words2),
                   IF size1 > size2 THEN size1 ELSE size2)

\* max_length of _substring_similarity: only substrings of three characters
\* or more are tried
substring_length(longest) == IF longest >= 3 THEN longest ELSE 0

\* DentalFAQMatcher._substring_similarity: the longest common substring of
\* at least three characters, over the length of the longer text
substring_similarity(text1, text2) ==
    IF text1 = <<>> \/ text2 = <<>> THEN Zero
    ELSE Ratio(substring_length(
                   find_longest_match(text1, 1, Len(text1), text2, 1, Len(text2)).size),
               IF Len(text1) > Len(text2) THEN Len(text1) ELSE Len(text2))

\* the similarity of a transcript and a question, both normalized
similarity(transcript, normalized_question) ==
    Max(Max(sequence_ratio(transcript, normalized_question),
            keyword_similarity(transcript, normalized_question)),
        substring_similarity(transcript, normalized_question))

\* IntentType
APPOINTMENT_BOOKING == "appointment_booking"
APPOINTMENT_CANCEL == "appointment_cancel"
APPOINTMENT_RESCHEDULE == "appointment_reschedule"
HOURS_INQUIRY == "hours_inquiry"
INSURANCE_INQUIRY == "insurance_inquiry"
SERVICES_INQUIRY == "services_inquiry"
LOCATION_INQUIRY == "location_inquiry"
EMERGENCY == "emergency"
PAYMENT_INQUIRY == "payment_inquiry"
FAQ_SPECIFIC == "faq_specific"
GENERAL_INFO == "general_info"
UNKNOWN == "unknown"

\* DentalFAQMatcher._load_intent_patterns, in the order of the dict.  A
\* pattern is the set of the texts it matches in a normalized transcript
\* (lower case, no punctuation, words one space apart); re.search finds
\* the pattern when one of them is a substring.
intent_patterns ==
    <<
      [intent |-> APPOINTMENT_BOOKING,
       keywords |->
         << <<"s", "c", "h", "e", "d", "u", "l", "e">>,
            <<"b", "o", "o", "k">>,
            <<"a", "p", "p", "o", "i", "n", "t", "m", "e", "n", "t">>,
            <<"v", "i", "s", "i", "t">>,
            <<"s", "e", "e", " ", "d", "o", "c", "t", "o", "r">>,
            <<"m", "a", "k", "e", " ", "a", "p", "p", "o", "i", "n", "t", "m", "e", "n", "t">>,
            <<"n", "e", "e", "d", " ", "a", "p", "p", "o", "i", "n", "t", "m", "e", "n", "t">>,
            <<"a", "v", "a", "i", "l", "a", "b", "l", "e", " ", "t", "i", "m", "e", "s">>,
            <<"n", "e", "x", "t", " ", "a", "v", "a", "i", "l", "a", "b", "l", "e">>,
            <<"w", "h", "e", "n", " ", "c", "a", "n", " ", "i", " ", "c", "o", "m", "e">>,
            <<"n", "e", "e", "d", " ", "t", "o", " ", "s", "e", "e", " ", "d", "e", "n", "t", "i", "s", "t">>,
            <<"c", "h", "e", "c", "k", "u", "p">>,
            <<"c", "l", "e", "a", "n", "i", "n", "g">>,
            <<"c", "o", "n", "s", "u", "l", "t", "a", "t", "i", "o", "n">>,
            <<"e", "m", "e", "r", "g", "e", "n", "c", "y", " ", "v", "i", "s", "i", "t">> >>,
       patterns |->
         << (* (?:schedule|book|make)\s+(?:an?\s+)?appointment *)
            {<<"b", "o", "o", "k", " ", "a", " ", "a", "p", "p", "o", "i", "n", "t", "m", "e", "n", "t">>,
             <<"b", "o", "o", "k", " ", "a", "n", " ", "a", "p", "p", "o", "i", "n", "t", "m", "e", "n", "t">>,
             <<"b", "o", "o", "k", " ", "a", "p", "p", "o", "i", "n", "t", "m", "e", "n", "t">>,
             <<"m", "a", "k", "e", " ", "a", " ", "a", "p", "p", "o", "i", "n", "t", "m", "e", "n", "t">>,
             <<"m", "a", "k", "e", " ", "a", "n", " ", "a", "p", "p", "o", "i", "n", "t", "m", "e", "n", "t">>,
             <<"m", "a", "k", "e", " ", "a", "p", "p", "o", "i", "n", "t", "m", "e", "n", "t">>,
             <<"s", "c", "h", "e", "d", "u", "l", "e", " ", "a", " ", "a", "p", "p", "o", "i", "n", "t", "m", "e", "n", "t">>,
             <<"s", "c", "h", "e", "d", "u", "l", "e", " ", "a", "n", " ", "a", "p", "p", "o", "i", "n", "t", "m", "e", "n", "t">>,
             <<"s", "c", "h", "e", "d", "u", "l", "e", " ", "a", "p", "p", "o", "i", "n", "t", "m", "e", "n", "t">>},
            (* (?:need|want)\s+(?:to\s+)?(?:schedule|book) *)
            {<<"n", "e", "e", "d", " ", "b", "o", "o", "k">>,
             <<"n", "e", "e", "d", " ", "s", "c", "h", "e", "d", "u", "l", "e">>,
             <<"n", "e", "e", "d", " ", "t", "o", " ", "b", "o", "o", "k">>,
             <<"n", "e", "e", "d", " ", "t", "o", " ", "s", "c", "h", "e", "d", "u", "l", "e">>,
             <<"w", "a", "n", "t", " ", "b", "o", "o", "k">>,
             <<"w", "a", "n", "t", " ", "s", "c", "h", "e", "d", "u", "l", "e">>,
             <<"w", "a", "n", "t", " ", "t", "o", " ", "b", "o", "o", "k">>,
             <<"w", "a", "n", "t", " ", "t", "o", " ", "s", "c", "h", "e", "d", "u", "l", "e">>},
            (* available\s+(?:times?|slots?|appointments?) *)
            {<<"a", "v", "a", "i", "l", "a", "b", "l", "e", " ", "a", "p", "p", "o", "i", "n", "t", "m", "e", "n", "t">>,
             <<"a", "v", "a", "i", "l", "a", "b", "l", "e", " ", "a", "p", "p", "o", "i", "n", "t", "m", "e", "n", "t", "s">>,
             <<"a", "v", "a", "i", "l", "a", "b", "l", "e", " ", "s", "l", "o", "t">>,
             <<"a", "v", "a", "i", "l", "a", "b", "l", "e", " ", "s", "l", "o", "t", "s">>,
             <<"a", "v", "a", "i", "l", "a", "b", "l", "e", " ", "t", "i", "m", "e">>,
             <<"a", "v", "a", "i", "l", "a", "b", "l", "e", " ", "t", "i", "m", "e", "s">>},
            (* next\s+(?:available|open)\s+(?:slot|time|appointment) *)
            {<<"n", "e", "x", "t", " ", "a", "v", "a", "i", "l", "a", "b", "l", "e", " ", "a", "p", "p", "o", "i", "n", "t", "m", "e", "n", "t">>,
             <<"n", "e", "x", "t", " ", "a", "v", "a", "i", "l", "a", "b", "l", "e", " ", "s", "l", "o", "t">>,
             <<"n", "e", "x", "t", " ", "a", "v", "a", "i", "l", "a", "b", "l", "e", " ", "t", "i", "m", "e">>,
             <<"n", "e", "x", "t", " ", "o", "p", "e", "n", " ", "a", "p", "p", "o", "i", "n", "t", "m", "e", "n", "t">>,
             <<"n", "e", "x", "t", " ", "o", "p", "e", "n", " ", "s", "l", "o", "t">>,
             <<"n", "e", "x", "t", " ", "o", "p", "e", "n", " ", "t", "i", "m", "e">>},
            (* (?:when|what\s+time)\s+can\s+i\s+(?:come|visit|see) *)
            {<<"w", "h", "a", "t", " ", "t", "i", "m", "e", " ", "c", "a", "n", " ", "i", " ", "c", "o", "m", "e">>,
             <<"w", "h", "a", "t", " ", "t", "i", "m", "e", " ", "c", "a", "n", " ", "i", " ", "s", "e", "e">>,
             <<"w", "h", "a", "t", " ", "t", "i", "m", "e", " ", "c", "a", "n", " ", "i", " ", "v", "i", "s", "i", "t">>,
             <<"w", "h", "e", "n", " ", "c", "a", "n", " ", "i", " ", "c", "o", "m", "e">>,
             <<"w", "h", "e", "n", " ", "c", "a", "n", " ", "i", " ", "s", "e", "e">>,
             <<"w", "h", "e", "n", " ", "c", "a", "n", " ", "i", " ", "v", "i", "s", "i", "t">>} >>,
       response |->
         "I'd be happy to help you schedule an appointment. Let me gather some information to find the best time for you."],
      [intent |-> APPOINTMENT_CANCEL,
       keywords |->
         << <<"c", "a", "n", "c", "e", "l">>,
            <<"c", "a", "n", "c", "e", "l", "l", "a", "t", "i", "o", "n">>,
            <<"c", "a", "n", "'", "t", " ", "m", "a", "k", "e", " ", "i", "t">>,
            <<"n", "e", "e", "d", " ", "t", "o", " ", "c", "a", "n", "c", "e", "l">> >>,
       patterns |->
         << (* (?:need\s+to\s+|want\s+to\s+)?cancel *)
            {<<"c", "a", "n", "c", "e", "l">>,
             <<"n", "e", "e", "d", " ", "t", "o", " ", "c", "a", "n", "c", "e", "l">>,
             <<"w", "a", "n", "t", " ", "t", "o", " ", "c", "a", "n", "c", "e", "l">>},
            (* can'?t\s+make\s+(?:it|my\s+appointment) *)
            {<<"c", "a", "n", "'", "t", " ", "m", "a", "k", "e", " ", "i", "t">>,
             <<"c", "a", "n", "'", "t", " ", "m", "a", "k", "e", " ", "m", "y", " ", "a", "p", "p", "o", "i", "n", "t", "m", "e", "n", "t">>,
             <<"c", "a", "n", "t", " ", "m", "a", "k", "e", " ", "i", "t">>,
             <<"c", "a", "n", "t", " ", "m", "a", "k", "e", " ", "m", "y", " ", "a", "p", "p", "o", "i", "n", "t", "m", "e", "n", "t">>} >>,
       response |->
         "I can help you cancel your appointment. May I have your name and appointment date to locate your booking?"],
      [intent |-> APPOINTMENT_RESCHEDULE,
       keywords |->
         << <<"r", "e", "s", "c", "h", "e", "d", "u", "l", "e">>,
            <<"c", "h", "a", "n", "g", "e", " ", "a", "p", "p", "o", "i", "n", "t", "m", "e", "n", "t">>,
            <<"m", "o", "v", "e", " ", "a", "p", "p", "o", "i", "n", "t", "m", "e", "n", "t">>,
            <<"d", "i", "f", "f", "e", "r", "e", "n", "t", " ", "t", "i", "m", "e">> >>,
       patterns |->
         << (* (?:reschedule|change|move)\s+(?:my\s+)?appointment *)
            {<<"c", "h", "a", "n", "g", "e", " ", "a", "p", "p", "o", "i", "n", "t", "m", "e", "n", "t">>,
             <<"c", "h", "a", "n", "g", "e", " ", "m", "y", " ", "a", "p", "p", "o", "i", "n", "t", "m", "e", "n", "t">>,
             <<"m", "o", "v", "e", " ", "a", "p", "p", "o", "i", "n", "t", "m", "e", "n", "t">>,
             <<"m", "o", "v", "e", " ", "m", "y", " ", "a", "p", "p", "o", "i", "n", "t", "m", "e", "n", "t">>,
             <<"r", "e", "s", "c", "h", "e", "d", "u", "l", "e", " ", "a", "p", "p", "o", "i", "n", "t", "m", "e", "n", "t">>,
             <<"r", "e", "s", "c", "h", "e", "d", "u", "l", "e", " ", "m", "y", " ", "a", "p", "p", "o", "i", "n", "t", "m", "e", "n", "t">>},
            (* different\s+(?:time|day|date) *)
            {<<"d", "i", "f", "f", "e", "r", "e", "n", "t", " ", "d", "a", "t", "e">>,
             <<"d", "i", "f", "f", "e", "r", "e", "n", "t", " ", "d", "a", "y">>,
             <<"d", "i", "f", "f", "e", "r", "e", "n", "t", " ", "t", "i", "m", "e">>} >>,
       response |->
         "I can help you reschedule your appointment. What would be a better time for you?"],
      [intent |-> HOURS_INQUIRY,
       keywords |->
         << <<"h", "o", "u", "r", "s">>,
            <<"o", "p", "e", "n">>,
            <<"c", "l", "o", "s", "e">>,
            <<"o", "p", "e", "r", "a", "t", "i", "n", "g", " ", "h", "o", "u", "r", "s">>,
            <<"o", "f", "f", "i", "c", "e", " ", "h", "o", "u", "r", "s">>,
            <<"w", "h", "a", "t", " ", "t", "i", "m", "e">> >>,
       patterns |->
         << (* (?:office|operating|business)\s+hours *)
            {<<"b", "u", "s", "i", "n", "e", "s", "s", " ", "h", "o", "u", "r", "s">>,
             <<"o", "f", "f", "i", "c", "e", " ", "h", "o", "u", "r", "s">>,
             <<"o", "p", "e", "r", "a", "t", "i", "n", "g", " ", "h", "o", "u", "r", "s">>},
            (* what\s+time\s+(?:do\s+you\s+)?(?:open|close) *)
            {<<"w", "h", "a", "t", " ", "t", "i", "m", "e", " ", "c", "l", "o", "s", "e">>,
             <<"w", "h", "a", "t", " ", "t", "i", "m", "e", " ", "d", "o", " ", "y", "o", "u", " ", "c", "l", "o", "s", "e">>,
             <<"w", "h", "a", "t", " ", "t", "i", "m", "e", " ", "d", "o", " ", "y", "o", "u", " ", "o", "p", "e", "n">>,
             <<"w", "h", "a", "t", " ", "t", "i", "m", "e", " ", "o", "p", "e", "n">>},
            (* are\s+you\s+open *)
            {<<"a", "r", "e", " ", "y", "o", "u", " ", "o", "p", "e", "n">>} >>,
       response |->
         "Our office hours vary by day. Let me provide you with our current schedule. Is there a specific day you'd like to visit?"],
      [intent |-> INSURANCE_INQUIRY,
       keywords |->
         << <<"i", "n", "s", "u", "r", "a", "n", "c", "e">>,
            <<"c", "o", "v", "e", "r", "a", "g", "e">>,
            <<"a", "c", "c", "e", "p", "t">>,
            <<"c", "o", "v", "e", "r", "e", "d">>,
            <<"p", "l", "a", "n">>,
            <<"b", "e", "n", "e", "f", "i", "t", "s">> >>,
       patterns |->
         << (* (?:do\s+you\s+)?(?:accept|take)\s+(?:my\s+)?insurance *)
            {<<"a", "c", "c", "e", "p", "t", " ", "i", "n", "s", "u", "r", "a", "n", "c", "e">>,
             <<"a", "c", "c", "e", "p", "t", " ", "m", "y", " ", "i", "n", "s", "u", "r", "a", "n", "c", "e">>,
             <<"d", "o", " ", "y", "o", "u", " ", "a", "c", "c", "e", "p", "t", " ", "i", "n", "s", "u", "r", "a", "n", "c", "e">>,
             <<"d", "o", " ", "y", "o", "u", " ", "a", "c", "c", "e", "p", "t", " ", "m", "y", " ", "i", "n", "s", "u", "r", "a", "n", "c", "e">>,
             <<"d", "o", " ", "y", "o", "u", " ", "t", "a", "k", "e", " ", "i", "n", "s", "u", "r", "a", "n", "c", "e">>,
             <<"d", "o", " ", "y", "o", "u", " ", "t", "a", "k", "e", " ", "m", "y", " ", "i", "n", "s", "u", "r", "a", "n", "c", "e">>,
             <<"t", "a", "k", "e", " ", "i", "n", "s", "u", "r", "a", "n", "c", "e">>,
             <<"t", "a", "k", "e", " ", "m", "y", " ", "i", "n", "s", "u", "r", "a", "n", "c", "e">>},
            (* insurance\s+(?:coverage|plans?|benefits) *)
            {<<"i", "n", "s", "u", "r", "a", "n", "c", "e", " ", "b", "e", "n", "e", "f", "i", "t", "s">>,
             <<"i", "n", "s", "u", "r", "a", "n", "c", "e", " ", "c", "o", "v", "e", "r", "a", "g", "e">>,
             <<"i", "n", "s", "u", "r", "a", "n", "c", "e", " ", "p", "l", "a", "n">>,
             <<"i", "n", "s", "u", "r", "a", "n", "c", "e", " ", "p", "l", "a", "n", "s">>},
            (* (?:is|am)\s+(?:this|i)\s+covered *)
            {<<"a", "m", " ", "i", " ", "c", "o", "v", "e", "r", "e", "d">>,
             <<"a", "m", " ", "t", "h", "i", "s", " ", "c", "o", "v", "e", "r", "e", "d">>,
             <<"i", "s", " ", "i", " ", "c", "o", "v", "e", "r", "e", "d">>,
             <<"i", "s", " ", "t", "h", "i", "s", " ", "c", "o", "v", "e", "r", "e", "d">>} >>,
       response |->
         "We work with most major insurance plans. What insurance provider do you have? I can verify your coverage."],
      [intent |-> SERVICES_INQUIRY,
       keywords |->
         << <<"s", "e", "r", "v", "i", "c", "e", "s">>,
            <<"t", "r", "e", "a", "t", "m", "e", "n", "t">>,
            <<"p", "r", "o", "c", "e", "d", "u", "r", "e">>,
            <<"c", "l", "e", "a", "n", "i", "n", "g">>,
            <<"f", "i", "l", "l", "i", "n", "g">>,
            <<"c", "r", "o", "w", "n">> >>,
       patterns |->
         << (* what\s+(?:services|treatments?|procedures?) *)
            {<<"w", "h", "a", "t", " ", "p", "r", "o", "c", "e", "d", "u", "r", "e">>,
             <<"w", "h", "a", "t", " ", "p", "r", "o", "c", "e", "d", "u", "r", "e", "s">>,
             <<"w", "h", "a", "t", " ", "s", "e", "r", "v", "i", "c", "e", "s">>,
             <<"w", "h", "a", "t", " ", "t", "r", "e", "a", "t", "m", "e", "n", "t">>,
             <<"w", "h", "a", "t", " ", "t", "r", "e", "a", "t", "m", "e", "n", "t", "s">>},
            (* do\s+you\s+(?:do|offer|provide) *)
            {<<"d", "o", " ", "y", "o", "u", " ", "d", "o">>,
             <<"d", "o", " ", "y", "o", "u", " ", "o", "f", "f", "e", "r">>,
             <<"d", "o", " ", "y", "o", "u", " ", "p", "r", "o", "v", "i", "d", "e">>},
            (* (?:cleaning|filling|crown|root\s+canal|whitening) *)
            {<<"c", "l", "e", "a", "n", "i", "n", "g">>,
             <<"c", "r", "o", "w", "n">>,
             <<"f", "i", "l", "l", "i", "n", "g">>,
             <<"r", "o", "o", "t", " ", "c", "a", "n", "a", "l">>,
             <<"w", "h", "i", "t", "e", "n", "i", "n", "g">>} >>,
       response |->
         "We offer comprehensive dental services including cleanings, fillings, crowns, and more. What specific treatment are you interested in?"],
      [intent |-> LOCATION_INQUIRY,
       keywords |->
         << <<"l", "o", "c", "a", "t", "i", "o", "n">>,
            <<"a", "d", "d", "r", "e", "s", "s">>,
            <<"w", "h", "e", "r", "e">>,
            <<"d", "i", "r", "e", "c", "t", "i", "o", "n", "s">>,
            <<"p", "a", "r", "k", "i", "n", "g">> >>,
       patterns |->
         << (* where\s+(?:are\s+you\s+)?(?:located|at) *)
            {<<"w", "h", "e", "r", "e", " ", "a", "r", "e", " ", "y", "o", "u", " ", "a", "t">>,
             <<"w", "h", "e", "r", "e", " ", "a", "r", "e", " ", "y", "o", "u", " ", "l", "o", "c", "a", "t", "e", "d">>,
             <<"w", "h", "e", "r", "e", " ", "a", "t">>,
             <<"w", "h", "e", "r", "e", " ", "l", "o", "c", "a", "t", "e", "d">>},
            (* (?:your\s+)?(?:address|location) *)
            {<<"a", "d", "d", "r", "e", "s", "s">>,
             <<"l", "o", "c", "a", "t", "i", "o", "n">>,
             <<"y", "o", "u", "r", " ", "a", "d", "d", "r", "e", "s", "s">>,
             <<"y", "o", "u", "r", " ", "l", "o", "c", "a", "t", "i", "o", "n">>},
            (* directions\s+to *)
            {<<"d", "i", "r", "e", "c", "t", "i", "o", "n", "s", " ", "t", "o">>} >>,
       response |->
         "We're conveniently located with easy access and parking. Would you like our address and directions?"],
      [intent |-> EMERGENCY,
       keywords |->
         << <<"e", "m", "e", "r", "g", "e", "n", "c", "y">>,
            <<"p", "a", "i", "n">>,
            <<"u", "r", "g", "e", "n", "t">>,
            <<"b", "r", "o", "k", "e">>,
            <<"l", "o", "s", "t", " ", "f", "i", "l", "l", "i", "n", "g">>,
            <<"s", "w", "o", "l", "l", "e", "n">> >>,
       patterns |->
         << (* (?:dental\s+)?emergency *)
            {<<"d", "e", "n", "t", "a", "l", " ", "e", "m", "e", "r", "g", "e", "n", "c", "y">>,
             <<"e", "m", "e", "r", "g", "e", "n", "c", "y">>},
            (* (?:severe|bad|terrible)\s+(?:pain|toothache) *)
            {<<"b", "a", "d", " ", "p", "a", "i", "n">>,
             <<"b", "a", "d", " ", "t", "o", "o", "t", "h", "a", "c", "h", "e">>,
             <<"s", "e", "v", "e", "r", "e", " ", "p", "a", "i", "n">>,
             <<"s", "e", "v", "e", "r", "e", " ", "t", "o", "o", "t", "h", "a", "c", "h", "e">>,
             <<"t", "e", "r", "r", "i", "b", "l", "e", " ", "p", "a", "i", "n">>,
             <<"t", "e", "r", "r", "i", "b", "l", "e", " ", "t", "o", "o", "t", "h", "a", "c", "h", "e">>},
            (* (?:broke|lost|fell\s+out)\s+(?:tooth|filling|crown) *)
            {<<"b", "r", "o", "k", "e", " ", "c", "r", "o", "w", "n">>,
             <<"b", "r", "o", "k", "e", " ", "f", "i", "l", "l", "i", "n", "g">>,
             <<"b", "r", "o", "k", "e", " ", "t", "o", "o", "t", "h">>,
             <<"f", "e", "l", "l", " ", "o", "u", "t", " ", "c", "r", "o", "w", "n">>,
             <<"f", "e", "l", "l", " ", "o", "u", "t", " ", "f", "i", "l", "l", "i", "n", "g">>,
             <<"f", "e", "l", "l", " ", "o", "u", "t", " ", "t", "o", "o", "t", "h">>,
             <<"l", "o", "s", "t", " ", "c", "r", "o", "w", "n">>,
             <<"l", "o", "s", "t", " ", "f", "i", "l", "l", "i", "n", "g">>,
             <<"l", "o", "s", "t", " ", "t", "o", "o", "t", "h">>} >>,
       response |->
         "I understand this is urgent. For dental emergencies, please call our emergency line or visit the nearest hospital if severe. Can you describe what happened?"],
      [intent |-> PAYMENT_INQUIRY,
       keywords |->
         << <<"p", "a", "y", "m", "e", "n", "t">>,
            <<"c", "o", "s", "t">>,
            <<"p", "r", "i", "c", "e">>,
            <<"h", "o", "w", " ", "m", "u", "c", "h">>,
            <<"f", "i", "n", "a", "n", "c", "i", "n", "g">>,
            <<"p", "a", "y", "m", "e", "n", "t", " ", "p", "l", "a", "n">> >>,
       patterns |->
         << (* (?:how\s+much|what\s+(?:does|is)\s+the\s+cost) *)
            {<<"h", "o", "w", " ", "m", "u", "c", "h">>,
             <<"w", "h", "a", "t", " ", "d", "o", "e", "s", " ", "t", "h", "e", " ", "c", "o", "s", "t">>,
             <<"w", "h", "a", "t", " ", "i", "s", " ", "t", "h", "e", " ", "c", "o", "s", "t">>},
            (* payment\s+(?:plans?|options?) *)
            {<<"p", "a", "y", "m", "e", "n", "t", " ", "o", "p", "t", "i", "o", "n">>,
             <<"p", "a", "y", "m", "e", "n", "t", " ", "o", "p", "t", "i", "o", "n", "s">>,
             <<"p", "a", "y", "m", "e", "n", "t", " ", "p", "l", "a", "n">>,
             <<"p", "a", "y", "m", "e", "n", "t", " ", "p", "l", "a", "n", "s">>},
            (* (?:financing|credit|payment)\s+available *)
            {<<"c", "r", "e", "d", "i", "t", " ", "a", "v", "a", "i", "l", "a", "b", "l", "e">>,
             <<"f", "i", "n", "a", "n", "c", "i", "n", "g", " ", "a", "v", "a", "i", "l", "a", "b", "l", "e">>,
             <<"p", "a", "y", "m", "e", "n", "t", " ", "a", "v", "a", "i", "l", "a", "b", "l", "e">>} >>,
       response |->
         "We offer flexible payment options and financing plans. Costs vary by treatment. Would you like information about a specific procedure?"]
    >>

\* time: (\d{1,2}(?::\d{2})?\s*(?:am|pm|a\.m\.|p\.m\.))
time_pattern ==
    << <<"#", "#", ":", "#", "#", " ", "a", "m">>,
       <<"#", "#", ":", "#", "#", " ", "p", "m">>,
       <<"#", "#", ":", "#", "#", " ", "a", ".", "m", ".">>,
       <<"#", "#", ":", "#", "#", " ", "p", ".", "m", ".">>,
       <<"#", "#", ":", "#", "#", "a", "m">>,
       <<"#", "#", ":", "#", "#", "p", "m">>,
       <<"#", "#", ":", "#", "#", "a", ".", "m", ".">>,
       <<"#", "#", ":", "#", "#", "p", ".", "m", ".">>,
       <<"#", "#", " ", "a", "m">>,
       <<"#", "#", " ", "p", "m">>,
       <<"#", "#", " ", "a", ".", "m", ".">>,
       <<"#", "#", " ", "p", ".", "m", ".">>,
       <<"#", "#", "a", "m">>,
       <<"#", "#", "p", "m">>,
       <<"#", "#", "a", ".", "m", ".">>,
       <<"#", "#", "p", ".", "m", ".">>,
       <<"#", ":", "#", "#", " ", "a", "m">>,
       <<"#", ":", "#", "#", " ", "p", "m">>,
       <<"#", ":", "#", "#", " ", "a", ".", "m", ".">>,
       <<"#", ":", "#", "#", " ", "p", ".", "m", ".">>,
       <<"#", ":", "#", "#", "a", "m">>,
       <<"#", ":", "#", "#", "p", "m">>,
       <<"#", ":", "#", "#", "a", ".", "m", ".">>,
       <<"#", ":", "#", "#", "p", ".", "m", ".">>,
       <<"#", " ", "a", "m">>,
       <<"#", " ", "p", "m">>,
       <<"#", " ", "a", ".", "m", ".">>,
       <<"#", " ", "p", ".", "m", ".">>,
       <<"#", "a", "m">>,
       <<"#", "p", "m">>,
       <<"#", "a", ".", "m", ".">>,
       <<"#", "p", ".", "m", ".">> >>

\* day: (monday|tuesday|wednesday|thursday|friday|saturday|sunday|today|tomorrow)
day_pattern ==
    << <<"m", "o", "n", "d", "a", "y">>,
       <<"t", "u", "e", "s", "d", "a", "y">>,
       <<"w", "e", "d", "n", "e", "s", "d", "a", "y">>,
       <<"t", "h", "u", "r", "s", "d", "a", "y">>,
       <<"f", "r", "i", "d", "a", "y">>,
       <<"s", "a", "t", "u", "r", "d", "a", "y">>,
       <<"s", "u", "n", "d", "a", "y">>,
       <<"t", "o", "d", "a", "y">>,
       <<"t", "o", "m", "o", "r", "r", "o", "w">> >>

\* date: (\d{1,2}(?:st|nd|rd|th)?\s+(?:january|february|march|april|may|june|july|august|september|october|november|december))
date_pattern ==
    << <<"#", "#", "s", "t", " ", "j", "a", "n", "u", "a", "r", "y">>,
       <<"#", "#", "s", "t", " ", "f", "e", "b", "r", "u", "a", "r", "y">>,
       <<"#", "#", "s", "t", " ", "m", "a", "r", "c", "h">>,
       <<"#", "#", "s", "t", " ", "a", "p", "r", "i", "l">>,
       <<"#", "#", "s", "t", " ", "m", "a", "y">>,
       <<"#", "#", "s", "t", " ", "j", "u", "n", "e">>,
       <<"#", "#", "s", "t", " ", "j", "u", "l", "y">>,
       <<"#", "#", "s", "t", " ", "a", "u", "g", "u", "s", "t">>,
       <<"#", "#", "s", "t", " ", "s", "e", "p", "t", "e", "m", "b", "e", "r">>,
       <<"#", "#", "s", "t", " ", "o", "c", "t", "o", "b", "e", "r">>,
       <<"#", "#", "s", "t", " ", "n", "o", "v", "e", "m", "b", "e", "r">>,
       <<"#", "#", "s", "t", " ", "d", "e", "c", "e", "m", "b", "e", "r">>,
       <<"#", "#", "n", "d", " ", "j", "a", "n", "u", "a", "r", "y">>,
       <<"#", "#", "n", "d", " ", "f", "e", "b", "r", "u", "a", "r", "y">>,
       <<"#", "#", "n", "d", " ", "m", "a", "r", "c", "h">>,
       <<"#", "#", "n", "d", " ", "a", "p", "r", "i", "l">>,
       <<"#", "#", "n", "d", " ", "m", "a", "y">>,
       <<"#", "#", "n", "d", " ", "j", "u", "n", "e">>,
       <<"#", "#", "n", "d", " ", "j", "u", "l", "y">>,
       <<"#", "#", "n", "d", " ", "a", "u", "g", "u", "s", "t">>,
       <<"#", "#", "n", "d", " ", "s", "e", "p", "t", "e", "m", "b", "e", "r">>,
       <<"#", "#", "n", "d", " ", "o", "c", "t", "o", "b", "e", "r">>,
       <<"#", "#", "n", "d", " ", "n", "o", "v", "e", "m", "b", "e", "r">>,
       <<"#", "#", "n", "d", " ", "d", "e", "c", "e", "m", "b", "e", "r">>,
       <<"#", "#", "r", "d", " ", "j", "a", "n", "u", "a", "r", "y">>,
       <<"#", "#", "r", "d", " ", "f", "e", "b", "r", "u", "a", "r", "y">>,
       <<"#", "#", "r", "d", " ", "m", "a", "r", "c", "h">>,
       <<"#", "#", "r", "d", " ", "a", "p", "r", "i", "l">>,
       <<"#", "#", "r", "d", " ", "m", "a", "y">>,
       <<"#", "#", "r", "d", " ", "j", "u", "n", "e">>,
       <<"#", "#", "r", "d", " ", "j", "u", "l", "y">>,
       <<"#", "#", "r", "d", " ", "a", "u", "g", "u", "s", "t">>,
       <<"#", "#", "r", "d", " ", "s", "e", "p", "t", "e", "m", "b", "e", "r">>,
       <<"#", "#", "r", "d", " ", "o", "c", "t", "o", "b", "e", "r">>,
       <<"#", "#", "r", "d", " ", "n", "o", "v", "e", "m", "b", "e", "r">>,
       <<"#", "#", "r", "d", " ", "d", "e", "c", "e", "m", "b", "e", "r">>,
       <<"#", "#", "t", "h", " ", "j", "a", "n", "u", "a", "r", "y">>,
       <<"#", "#", "t", "h", " ", "f", "e", "b", "r", "u", "a", "r", "y">>,
       <<"#", "#", "t", "h", " ", "m", "a", "r", "c", "h">>,
       <<"#", "#", "t", "h", " ", "a", "p", "r", "i", "l">>,
       <<"#", "#", "t", "h", " ", "m", "a", "y">>,
       <<"#", "#", "t", "h", " ", "j", "u", "n", "e">>,
       <<"#", "#", "t", "h", " ", "j", "u", "l", "y">>,
       <<"#", "#", "t", "h", " ", "a", "u", "g", "u", "s", "t">>,
       <<"#", "#", "t", "h", " ", "s", "e", "p", "t", "e", "m", "b", "e", "r">>,
       <<"#", "#", "t", "h", " ", "o", "c", "t", "o", "b", "e", "r">>,
       <<"#", "#", "t", "h", " ", "n", "o", "v", "e", "m", "b", "e", "r">>,
       <<"#", "#", "t", "h", " ", "d", "e", "c", "e", "m", "b", "e", "r">>,
       <<"#", "#", " ", "j", "a", "n", "u", "a", "r", "y">>,
       <<"#", "#", " ", "f", "e", "b", "r", "u", "a", "r", "y">>,
       <<"#", "#", " ", "m", "a", "r", "c", "h">>,
       <<"#", "#", " ", "a", "p", "r", "i", "l">>,
       <<"#", "#", " ", "m", "a", "y">>,
       <<"#", "#", " ", "j", "u", "n", "e">>,
       <<"#", "#", " ", "j", "u", "l", "y">>,
       <<"#", "#", " ", "a", "u", "g", "u", "s", "t">>,
       <<"#", "#", " ", "s", "e", "p", "t", "e", "m", "b", "e", "r">>,
       <<"#", "#", " ", "o", "c", "t", "o", "b", "e", "r">>,
       <<"#", "#", " ", "n", "o", "v", "e", "m", "b", "e", "r">>,
       <<"#", "#", " ", "d", "e", "c", "e", "m", "b", "e", "r">>,
       <<"#", "s", "t", " ", "j", "a", "n", "u", "a", "r", "y">>,
       <<"#", "s", "t", " ", "f", "e", "b", "r", "u", "a", "r", "y">>,
       <<"#", "s", "t", " ", "m", "a", "r", "c", "h">>,
       <<"#", "s", "t", " ", "a", "p", "r", "i", "l">>,
       <<"#", "s", "t", " ", "m", "a", "y">>,
       <<"#", "s", "t", " ", "j", "u", "n", "e">>,
       <<"#", "s", "t", " ", "j", "u", "l", "y">>,
       <<"#", "s", "t", " ", "a", "u", "g", "u", "s", "t">>,
       <<"#", "s", "t", " ", "s", "e", "p", "t", "e", "m", "b", "e", "r">>,
       <<"#", "s", "t", " ", "o", "c", "t", "o", "b", "e", "r">>,
       <<"#", "s", "t", " ", "n", "o", "v", "e", "m", "b", "e", "r">>,
       <<"#", "s", "t", " ", "d", "e", "c", "e", "m", "b", "e", "r">>,
       <<"#", "n", "d", " ", "j", "a", "n", "u", "a", "r", "y">>,
       <<"#", "n", "d", " ", "f", "e", "b", "r", "u", "a", "r", "y">>,
       <<"#", "n", "d", " ", "m", "a", "r", "c", "h">>,
       <<"#", "n", "d", " ", "a", "p", "r", "i", "l">>,
       <<"#", "n", "d", " ", "m", "a", "y">>,
       <<"#", "n", "d", " ", "j", "u", "n", "e">>,
       <<"#", "n", "d", " ", "j", "u", "l", "y">>,
       <<"#", "n", "d", " ", "a", "u", "g", "u", "s", "t">>,
       <<"#", "n", "d", " ", "s", "e", "p", "t", "e", "m", "b", "e", "r">>,
       <<"#", "n", "d", " ", "o", "c", "t", "o", "b", "e", "r">>,
       <<"#", "n", "d", " ", "n", "o", "v", "e", "m", "b", "e", "r">>,
       <<"#", "n", "d", " ", "d", "e", "c", "e", "m", "b", "e", "r">>,
       <<"#", "r", "d", " ", "j", "a", "n", "u", "a", "r", "y">>,
       <<"#", "r", "d", " ", "f", "e", "b", "r", "u", "a", "r", "y">>,
       <<"#", "r", "d", " ", "m", "a", "r", "c", "h">>,
       <<"#", "r", "d", " ", "a", "p", "r", "i", "l">>,
       <<"#", "r", "d", " ", "m", "a", "y">>,
       <<"#", "r", "d", " ", "j", "u", "n", "e">>,
       <<"#", "r", "d", " ", "j", "u", "l", "y">>,
       <<"#", "r", "d", " ", "a", "u", "g", "u", "s", "t">>,
       <<"#", "r", "d", " ", "s", "e", "p", "t", "e", "m", "b", "e", "r">>,
       <<"#", "r", "d", " ", "o", "c", "t", "o", "b", "e", "r">>,
       <<"#", "r", "d", " ", "n", "o", "v", "e", "m", "b", "e", "r">>,
       <<"#", "r", "d", " ", "d", "e", "c", "e", "m", "b", "e", "r">>,
       <<"#", "t", "h", " ", "j", "a", "n", "u", "a", "r", "y">>,
       <<"#", "t", "h", " ", "f", "e", "b", "r", "u", "a", "r", "y">>,
       <<"#", "t", "h", " ", "m", "a", "r", "c", "h">>,
       <<"#", "t", "h", " ", "a", "p", "r", "i", "l">>,
       <<"#", "t", "h", " ", "m", "a", "y">>,
       <<"#", "t", "h", " ", "j", "u", "n", "e">>,
       <<"#", "t", "h", " ", "j", "u", "l", "y">>,
       <<"#", "t", "h", " ", "a", "u", "g", "u", "s", "t">>,
       <<"#", "t", "h", " ", "s", "e", "p", "t", "e", "m", "b", "e", "r">>,
       <<"#", "t", "h", " ", "o", "c", "t", "o", "b", "e", "r">>,
       <<"#", "t", "h", " ", "n", "o", "v", "e", "m", "b", "e", "r">>,
       <<"#", "t", "h", " ", "d", "e", "c", "e", "m", "b", "e", "r">>,
       <<"#", " ", "j", "a", "n", "u", "a", "r", "y">>,
       <<"#", " ", "f", "e", "b", "r", "u", "a", "r", "y">>,
       <<"#", " ", "m", "a", "r", "c", "h">>,
       <<"#", " ", "a", "p", "r", "i", "l">>,
       <<"#", " ", "m", "a", "y">>,
       <<"#", " ", "j", "u", "n", "e">>,
       <<"#", " ", "j", "u", "l", "y">>,
       <<"#", " ", "a", "u", "g", "u", "s", "t">>,
       <<"#", " ", "s", "e", "p", "t", "e", "m", "b", "e", "r">>,
       <<"#", " ", "o", "c", "t", "o", "b", "e", "r">>,
       <<"#", " ", "n", "o", "v", "e", "m", "b", "e", "r">>,
       <<"#", " ", "d", "e", "c", "e", "m", "b", "e", "r">> >>

\* insurance_provider: (delta|aetna|cigna|blue\s+cross|humana|metlife|united|anthem)
insurance_pattern ==
    << <<"d", "e", "l", "t", "a">>,
       <<"a", "e", "t", "n", "a">>,
       <<"c", "i", "g", "n", "a">>,
       <<"b", "l", "u", "e", " ", "c", "r", "o", "s", "s">>,
       <<"h", "u", "m", "a", "n", "a">>,
       <<"m", "e", "t", "l", "i", "f", "e">>,
       <<"u", "n", "i", "t", "e", "d">>,
       <<"a", "n", "t", "h", "e", "m">> >>

\* service_type: (cleaning|whitening|filling|crown|root\s+canal|extraction|braces|implants)
service_pattern ==
    << <<"c", "l", "e", "a", "n", "i", "n", "g">>,
       <<"w", "h", "i", "t", "e", "n", "i", "n", "g">>,
       <<"f", "i", "l", "l", "i", "n", "g">>,
       <<"c", "r", "o", "w", "n">>,
       <<"r", "o", "o", "t", " ", "c", "a", "n", "a", "l">>,
       <<"e", "x", "t", "r", "a", "c", "t", "i", "o", "n">>,
       <<"b", "r", "a", "c", "e", "s">>,
       <<"i", "m", "p", "l", "a", "n", "t", "s">> >>

\* pain_level: (severe|terrible|unbearable|mild|moderate|intense)
pain_pattern ==
    << <<"s", "e", "v", "e", "r", "e">>,
       <<"t", "e", "r", "r", "i", "b", "l", "e">>,
       <<"u", "n", "b", "e", "a", "r", "a", "b", "l", "e">>,
       <<"m", "i", "l", "d">>,
       <<"m", "o", "d", "e", "r", "a", "t", "e">>,
       <<"i", "n", "t", "e", "n", "s", "e">> >>

\* IntentResult
IntentResult(intent, confidence, matched_keywords, extracted_entities, suggested_response, tenant_specific, faq_matched) ==
    [intent |-> intent,
     confidence |-> confidence,
     matched_keywords |-> matched_keywords,
     extracted_entities |-> extracted_entities,
     suggested_response |-> suggested_response,
     tenant_specific |-> tenant_specific,
     faq_matched |-> faq_matched]

\* PracticeConfig: a dict is the sequence of its items <<key, value>> in
\* insertion order
PracticeConfig(practice_id, name, hours_json, insurances_json, faq_json, services_json, location_json) ==
    [practice_id |-> practice_id,
     name |-> name,
     phone_number |-> NoneVal,
     hours_json |-> hours_json,
     insurances_json |-> insurances_json,
     faq_json |-> faq_json,
     services_json |-> services_json,
     location_json |-> location_json]

\* Optional[PracticeConfig]: None where a profile is expected is the record
\* with the one field is_none
NoPractice == [is_none |-> TRUE]

\* practice_config is None
IsNone(practice_config) == "is_none" \in DOMAIN practice_config

\* a * b and a + b on floats
Times(a, b) == Ratio(a.num * b.num, a.den * b.den)

Plus(a, b) == Ratio(a.num * b.den + b.num * a.den, a.den * b.den)

\* if keyword.lower() in transcript
keyword_matches(transcript, keyword) == contains(transcript, lower(keyword))

\* re.search(pattern, transcript, re.IGNORECASE)
pattern_matches(transcript, pattern) ==
    \E text \in pattern : contains(transcript, text)

\* a variant that scores the weighted sum only
calculate_intent_confidence_weighted(transcript, intent_data) ==
    LET matched_keywords ==
            SelectSeq(intent_data.keywords, LAMBDA keyword : keyword_matches(transcript, keyword))
        total_keywords == Len(intent_data.keywords)
        keyword_score ==
            IF total_keywords > 0 THEN Ratio(Len(matched_keywords), total_keywords) ELSE Zero
        pattern_score ==
            IF \E k \in 1..Len(intent_data.patterns) :
                  pattern_matches(transcript, intent_data.patterns[k])
            THEN Ratio(8, 10) ELSE Zero
    IN  [confidence |-> Plus(Times(keyword_score, Ratio(6, 10)),
                             Times(pattern_score, Ratio(4, 10))),
         matched_keywords |-> matched_keywords]

\* DentalFAQMatcher._calculate_intent_confidence
calculate_intent_confidence(transcript, intent_data) ==
    LET matched_keywords ==
            SelectSeq(intent_data.keywords, LAMBDA keyword : keyword_matches(transcript, keyword))
        total_keywords == Len(intent_data.keywords)
        keyword_score ==
            IF total_keywords > 0 THEN Ratio(Len(matched_keywords), total_keywords) ELSE Zero
        pattern_score ==
            IF \E k \in 1..Len(intent_data.patterns) :
                  pattern_matches(transcript, intent_data.patterns[k])
            THEN Ratio(8, 10) ELSE Zero
    IN  [confidence |-> Max(Plus(Times(keyword_score, Ratio(6, 10)),
                                 Times(pattern_score, Ratio(4, 10))),
                            pattern_score),
         matched_keywords |-> matched_keywords]

\* the template matches the text at position i ('#' stands for \d)
template_at(text, i, template) ==
    /\ i + Len(template) - 1 <= Len(text)
    /\ \A k \in 1..Len(template) :
          IF template[k] = "#" THEN text[i + k - 1] \in Digits
          ELSE text[i + k - 1] = template[k]

\* the first of the templates of the pattern that matches the text at i
first_template(pattern, text, i) ==
    CHOOSE k \in 1..Len(pattern) :
        /\ template_at(text, i, pattern[k])
        /\ \A earlier \in 1..(k - 1) : ~template_at(text, i, pattern[earlier])

\* group(1) of the leftmost match; None without a match
leftmost_match(pattern, text, starts) ==
    IF starts = {} THEN NoneVal
    ELSE SubSeq(text, least(starts),
                least(starts)
                  + Len(pattern[first_template(pattern, text, least(starts))]) - 1)

\* re.search(pattern, transcript).group(1): the leftmost match, and at one
\* position the first template that matches
search(pattern, text) ==
    leftmost_match(pattern, text,
                   {i \in 1..Len(text) :
                       \E k \in 1..Len(pattern) : template_at(text, i, pattern[k])})

\* the dict of the entities that were found: the function from its keys
found_entities(found) ==
    [key \in {name \in DOMAIN found : found[name] /= NoneVal} |-> found[key]]

\* DentalFAQMatcher._extract_entities
extract_entities(transcript, intent) ==
    found_entities(
        [time |-> search(time_pattern, transcript),
         day |-> search(day_pattern, transcript),
         date |-> search(date_pattern, transcript),
         insurance_provider |->
            IF intent = INSURANCE_INQUIRY
            THEN search(insurance_pattern, transcript) ELSE NoneVal,
         service_type |->
            IF intent = SERVICES_INQUIRY
            THEN search(service_pattern, transcript) ELSE NoneVal,
         pain_level |->
            IF intent = EMERGENCY
            THEN search(pain_pattern, transcript) ELSE NoneVal])

\* str.upper() on one character
upper_char(c) ==
    IF \E i \in 1..26 : Lower[i] = c
    THEN Upper[CHOOSE i \in 1..26 : Lower[i] = c]
    ELSE c

IsLetter(c) == \E i \in 1..26 : Lower[i] = c \/ Upper[i] = c

\* str.title()
title(s) ==
    [i \in 1..Len(s) |->
        IF i = 1 \/ ~IsLetter(s[i - 1]) THEN upper_char(s[i]) ELSE lower_char(s[i])]

\* str.replace('_', ' ')
replace_underscores(s) == [i \in 1..Len(s) |-> IF s[i] = "_" THEN " " ELSE s[i]]

\* the day as _enhance_response_with_entities names it
day_text(day) ==
    IF day \in {<<"t", "o", "d", "a", "y">>, <<"t", "o", "m", "o", "r", "r", "o", "w">>}
    THEN day ELSE title(day)

\* a text is the sequence of the pieces an f-string puts together
\* DentalFAQMatcher._enhance_response_with_entities
enhance_response_with_entities(response, entities, intent) ==
    response
      \o (IF "day" \in DOMAIN entities
          THEN <<" For ", day_text(lower(entities.day)), ", let me check our availability.">>
          ELSE <<>>)
      \o (IF "insurance_provider" \in DOMAIN entities
          THEN <<" I see you have ", title(entities.insurance_provider), " insurance.">>
          ELSE <<>>)
      \o (IF "service_type" \in DOMAIN entities
          THEN <<" You're asking about ", replace_underscores(entities.service_type),
                 " services.">>
          ELSE <<>>)
      \o (IF "pain_level" \in DOMAIN entities
          THEN <<" I understand you're experiencing ", entities.pain_level, " pain.">>
          ELSE <<>>)

day_mapping ==
    [mon |-> "Monday", tue |-> "Tuesday", wed |-> "Wednesday", thu |-> "Thursday",
     fri |-> "Friday", sat |-> "Saturday", sun |-> "Sunday"]

\* DentalFAQMatcher._format_hours, for times that are lists of texts
format_hours(hours_json) ==
    LET shown == SelectSeq(hours_json,
                           LAMBDA item : Truthy(item[2]) /\ item[1] \in DOMAIN day_mapping)
        formatted_hours ==
            [i \in 1..Len(shown) |-> <<day_mapping[shown[i][1]], " ", shown[i][2][1]>>]
    IN  IF formatted_hours /= <<>> THEN join(<<", ">>, formatted_hours)
        ELSE <<"available upon request">>

\* " and ".join(items) for up to two items, else
\* ", ".join(items[:-1]) + f", and {items[-1]}"
list_text(items) ==
    IF Len(items) <= 2 THEN join(<<" and ">>, [i \in 1..Len(items) |-> <<items[i]>>])
    ELSE join(<<", ">>, [i \in 1..(Len(items) - 1) |-> <<items[i]>>])
           \o <<", and ", items[Len(items)]>>

\* dict.get(key, default)
get(items, key, default) ==
    IF \E i \in 1..Len(items) : items[i][1] = key
    THEN items[CHOOSE i \in 1..Len(items) : items[i][1] = key][2]
    ELSE default

\* str.join raises TypeError for an item that is not a str: a null of the
\* stored JSON list
join_raises(items) == \E i \in 1..Len(items) : items[i] = NoneVal

\* the join of _personalize_response takes every item of a list of up to two
\* and all but the last of a longer one
list_text_raises(items) ==
    IF Len(items) <= 2 THEN join_raises(items)
    ELSE join_raises(SubSeq(items, 1, Len(items) - 1))

\* whether _personalize_response raises
personalize_response_raises(intent, practice_config) ==
    IF intent = HOURS_INQUIRY /\ Truthy(practice_config.hours_json) THEN FALSE
    ELSE IF intent = INSURANCE_INQUIRY /\ Truthy(practice_config.insurances_json)
    THEN list_text_raises(practice_config.insurances_json)
    ELSE IF intent = SERVICES_INQUIRY /\ Truthy(practice_config.services_json)
    THEN list_text_raises(practice_config.services_json)
    ELSE FALSE

\* DentalFAQMatcher._personalize_response
personalize_response(response, intent, practice_config) ==
    IF intent = HOURS_INQUIRY /\ Truthy(practice_config.hours_json)
    THEN <<"Our office hours are ">> \o format_hours(practice_config.hours_json)
            \o <<". Is there a specific day you'd like to visit?">>
    ELSE IF intent = INSURANCE_INQUIRY /\ Truthy(practice_config.insurances_json)
    THEN <<"We accept ">> \o list_text(practice_config.insurances_json)
            \o <<" insurance plans. What insurance do you have?">>
    ELSE IF intent = SERVICES_INQUIRY /\ Truthy(practice_config.services_json)
    THEN <<"We offer ">> \o list_text(practice_config.services_json)
            \o <<". What specific treatment are you interested in?">>
    ELSE IF intent = LOCATION_INQUIRY /\ Truthy(practice_config.location_json)
    THEN <<"We're located at ",
           get(practice_config.location_json, "address", "our convenient location"),
           ". Would you like detailed directions?">>
    ELSE response

\* DentalFAQMatcher._generate_unknown_response
generate_unknown_response(practice_config) ==
    LET base == "I'm not sure I understand. Could you please tell me how I can help you today?"
    IN  IF ~IsNone(practice_config)
        THEN IF Truthy(practice_config.services_json)
             THEN <<base, " I can assist with ", "appointments, ">>
                    \o join(<<", ">>, [i \in 1..(IF Len(practice_config.services_json) < 3
                                                 THEN Len(practice_config.services_json)
                                                 ELSE 3) |->
                                          <<practice_config.services_json[i]>>])
                    \o <<", and other inquiries", ".">>
             ELSE <<base, " I can assist with ",
                    "appointments, insurance questions, office hours, and other inquiries", ".">>
        ELSE <<base, " I can assist with appointments, insurance questions, office hours, or other inquiries.">>

\* whether _generate_unknown_response raises: ', '.join(top_services)
generate_unknown_response_raises(practice_config) ==
    /\ ~IsNone(practice_config)
    /\ Truthy(practice_config.services_json)
    /\ join_raises(SubSeq(practice_config.services_json, 1,
                          IF Len(practice_config.services_json) < 3
                          THEN Len(practice_config.services_json) ELSE 3))

\* self.intent_patterns[intent]["response"]
base_response(patterns, intent) ==
    patterns[CHOOSE k \in 1..Len(patterns) : patterns[k].intent = intent].response

\* the end of _generate_response: if entities: ...
enhanced(response, entities, intent) ==
    IF DOMAIN entities /= {}
    THEN enhance_response_with_entities(response, entities, intent)
    ELSE response

\* DentalFAQMatcher._generate_response
generate_response(intent, entities, practice_config) ==
    IF intent = UNKNOWN THEN generate_unknown_response(practice_config)
    ELSE IF intent = FAQ_SPECIFIC
    THEN IF "response" \in DOMAIN entities THEN entities.response
         ELSE <<"I can help you with that.">>
    ELSE enhanced(IF ~IsNone(practice_config)
                  THEN personalize_response(<<base_response(intent_patterns, intent)>>,
                                            intent, practice_config)
                  ELSE <<base_response(intent_patterns, intent)>>,
                  entities, intent)

\* whether _generate_response raises
generate_response_raises(intent, practice_config) ==
    IF intent = UNKNOWN THEN generate_unknown_response_raises(practice_config)
    ELSE IF intent = FAQ_SPECIFIC THEN FALSE
    ELSE ~IsNone(practice_config) /\ personalize_response_raises(intent, practice_config)

RECURSIVE best_faq(_, _, _, _)

\* one turn of the loop of _match_practice_faq: if similarity > best_similarity
better_faq(transcript, faq_json, k, best, found) ==
    IF Less(best.best_similarity, found)
    THEN best_faq(transcript, faq_json, k + 1,
                  [best_match |-> faq_json[k][1],
                   best_similarity |-> found,
                   best_answer |-> faq_json[k][2]])
    ELSE best_faq(transcript, faq_json, k + 1, best)

\* the loop of _match_practice_faq over the questions from the k-th on
best_faq(transcript, faq_json, k, best) ==
    IF k > Len(faq_json) THEN best
    ELSE better_faq(transcript, faq_json, k, best,
                    similarity(transcript, normalize_text(faq_json[k][1])))

\* nothing matched yet
no_faq == [best_match |-> <<>>, best_similarity |-> Zero, best_answer |-> <<>>]

\* a variant that needs more than the threshold
faq_match_above(best) ==
    IF Less(Ratio(7, 10), best.best_similarity)
    THEN IntentResult(FAQ_SPECIFIC, best.best_similarity, <<>>,
                      [response |-> best.best_answer], best.best_answer,
                      TRUE, best.best_match)
    ELSE IntentResult(UNKNOWN, Zero, <<>>, <<>>, <<>>, FALSE, NoneVal)

\* the end of _match_practice_faq: if best_match and best_similarity >= 0.7
faq_match(best) ==
    IF AtMost(Ratio(7, 10), best.best_similarity)
    THEN IntentResult(FAQ_SPECIFIC, best.best_similarity, <<>>,
                      [response |-> best.best_answer], best.best_answer,
                      TRUE, best.best_match)
    ELSE IntentResult(UNKNOWN, Zero, <<>>, <<>>, <<>>, FALSE, NoneVal)

\* DentalFAQMatcher._match_practice_faq
match_practice_faq(transcript, practice_config) ==
    faq_match(best_faq(transcript, practice_config.faq_json, 1, no_faq))

\* a variant in which an equal confidence replaces the earlier intent
is_better_or_equal(confidence, best_confidence) ==
    AtMost(best_confidence, confidence) /\ Less(Zero, confidence)

\* if confidence > best_confidence
is_better(confidence, best_confidence) == Less(best_confidence, confidence)

RECURSIVE best_intent(_, _, _, _)

\* one turn of the loop of analyze_transcript
better_intent(patterns, transcript, k, best, scored) ==
    IF is_better(scored.confidence, best.best_confidence)
    THEN best_intent(patterns, transcript, k + 1,
                     [best_intent |-> patterns[k].intent,
                      best_confidence |-> scored.confidence,
                      matched_keywords |-> scored.matched_keywords])
    ELSE best_intent(patterns, transcript, k + 1, best)

\* the loop of analyze_transcript over the intents from the k-th on
best_intent(patterns, transcript, k, best) ==
    IF k > Len(patterns) THEN best
    ELSE better_intent(patterns, transcript, k, best,
                       calculate_intent_confidence(transcript, patterns[k]))

\* no intent matched yet
no_intent == [best_intent |-> UNKNOWN, best_confidence |-> Zero, matched_keywords |-> <<>>]

\* a variant that marks no result of the general recognition as the practice's
intent_result_unmarked(best, entities, practice_config) ==
    IntentResult(best.best_intent, best.best_confidence, best.matched_keywords,
                 entities,
                 generate_response(best.best_intent, entities, practice_config),
                 FALSE, NoneVal)

\* the IntentResult of the general recognition
intent_result(best, entities, practice_config) ==
    IntentResult(best.best_intent, best.best_confidence, best.matched_keywords,
                 entities,
                 generate_response(best.best_intent, entities, practice_config),
                 ~IsNone(practice_config), NoneVal)

\* the entities and the response for the best intent
best_result(best, normalized_transcript, practice_config) ==
    intent_result(best, extract_entities(normalized_transcript, best.best_intent),
                  practice_config)

\* the general intent recognition of analyze_transcript
recognize_intent(normalized_transcript, practice_config) ==
    best_result(best_intent(intent_patterns, normalized_transcript, 1, no_intent),
                normalized_transcript, practice_config)

\* if faq_result.confidence >= 0.7: return faq_result
faq_or_intent(faq_result, normalized_transcript, practice_config) ==
    IF AtMost(Ratio(7, 10), faq_result.confidence) THEN faq_result
    ELSE recognize_intent(normalized_transcript, practice_config)

\* analyze_transcript after the transcript is normalized
analyze_normalized(normalized_transcript, practice_config) ==
    IF ~IsNone(practice_config) /\ Truthy(practice_config.faq_json)
    THEN faq_or_intent(match_practice_faq(normalized_transcript, practice_config),
                       normalized_transcript, practice_config)
    ELSE recognize_intent(normalized_transcript, practice_config)

\* whether the general intent recognition of analyze_transcript raises: no
\* statement of analyze_transcript is inside a try
recognize_intent_raises(best, practice_config) ==
    generate_response_raises(best.best_intent, practice_config)

\* whether analyze_transcript raises after the transcript is normalized
analyze_normalized_raises(normalized_transcript, practice_config) ==
    IF /\ ~IsNone(practice_config)
       /\ Truthy(practice_config.faq_json)
       /\ AtMost(Ratio(7, 10),
                 match_practice_faq(normalized_transcript, practice_config).confidence)
    THEN FALSE
    ELSE recognize_intent_raises(
             best_intent(intent_patterns, normalized_transcript, 1, no_intent),
             practice_config)

\* whether DentalFAQMatcher.analyze_transcript raises
analyze_transcript_raises(transcript, practice_config) ==
    IF ~Truthy(transcript) \/ strip(transcript) = <<>> THEN FALSE
    ELSE analyze_normalized_raises(normalize_text(transcript), practice_config)

\* a variant that takes a blank transcript for a question
analyze_transcript_unguarded(transcript, practice_config) ==
    analyze_normalized(normalize_text(transcript), practice_config)

\* DentalFAQMatcher.analyze_transcript
analyze_transcript(transcript, practice_config) ==
    IF ~Truthy(transcript) \/ strip(transcript) = <<>>
    THEN IntentResult(UNKNOWN, Zero, <<>>, <<>>,
                      <<"I didn't catch that. Could you please repeat your question?">>,
                      FALSE, NoneVal)
    ELSE analyze_normalized(normalize_text(transcript), practice_config)

\* What a caller says to the assistant
T_none ==
    NoneVal

T_empty ==
    <<>>

\* "   "
T_spaces ==
    <<" ", " ", " ">>

\* " \n\t"
T_newline ==
    <<" ", "\n", "\t">>

\* "Hello there!"
T_hello ==
    <<"H", "e", "l", "l", "o", " ", "t", "h", "e", "r", "e", "!">>

\* "?!"
T_punctuation ==
    <<"?", "!">>

\* "Do you validate parking?"
T_parking ==
    <<"D", "o", " ", "y", "o", "u", " ", "v", "a", "l", "i", "d", "a", "t",
      "e", " ", "p", "a", "r", "k", "i", "n", "g", "?">>

\* "do u validate parking"
T_parking_plain ==
    <<"d", "o", " ", "u", " ", "v", "a", "l", "i", "d", "a", "t", "e", " ",
      "p", "a", "r", "k", "i", "n", "g">>

\* "What are your office hours?"
T_office_hours ==
    <<"W", "h", "a", "t", " ", "a", "r", "e", " ", "y", "o", "u", "r", " ",
      "o", "f", "f", "i", "c", "e", " ", "h", "o", "u", "r", "s", "?">>

\* "is parking free"
T_free_parking ==
    <<"i", "s", " ", "p", "a", "r", "k", "i", "n", "g", " ", "f", "r", "e",
      "e">>

\* "Are kids welcome here?"
T_kids ==
    <<"A", "r", "e", " ", "k", "i", "d", "s", " ", "w", "e", "l", "c", "o",
      "m", "e", " ", "h", "e", "r", "e", "?">>

\* "abcdefgxyz"
T_seven_of_ten ==
    <<"a", "b", "c", "d", "e", "f", "g", "x", "y", "z">>

\* "abcdefwxyz"
T_six_of_ten ==
    <<"a", "b", "c", "d", "e", "f", "w", "x", "y", "z">>

\* "parking"
T_park ==
    <<"p", "a", "r", "k", "i", "n", "g">>

\* "your office hours?"
T_your_hours ==
    <<"y", "o", "u", "r", " ", "o", "f", "f", "i", "c", "e", " ", "h", "o",
      "u", "r", "s", "?">>

\* "I'd like to book an appointment"
T_book ==
    <<"I", "'", "d", " ", "l", "i", "k", "e", " ", "t", "o", " ", "b", "o",
      "o", "k", " ", "a", "n", " ", "a", "p", "p", "o", "i", "n", "t", "m",
      "e", "n", "t">>

\* "I need to cancel"
T_cancel ==
    <<"I", " ", "n", "e", "e", "d", " ", "t", "o", " ", "c", "a", "n", "c",
      "e", "l">>

\* "Can I move my appointment to a different day?"
T_reschedule ==
    <<"C", "a", "n", " ", "I", " ", "m", "o", "v", "e", " ", "m", "y", " ",
      "a", "p", "p", "o", "i", "n", "t", "m", "e", "n", "t", " ", "t", "o",
      " ", "a", " ", "d", "i", "f", "f", "e", "r", "e", "n", "t", " ", "d",
      "a", "y", "?">>

\* "What time do you open on Monday?"
T_hours ==
    <<"W", "h", "a", "t", " ", "t", "i", "m", "e", " ", "d", "o", " ", "y",
      "o", "u", " ", "o", "p", "e", "n", " ", "o", "n", " ", "M", "o", "n",
      "d", "a", "y", "?">>

\* "Do you take my insurance? I have Blue Cross"
T_insurance ==
    <<"D", "o", " ", "y", "o", "u", " ", "t", "a", "k", "e", " ", "m", "y",
      " ", "i", "n", "s", "u", "r", "a", "n", "c", "e", "?", " ", "I", " ",
      "h", "a", "v", "e", " ", "B", "l", "u", "e", " ", "C", "r", "o", "s",
      "s">>

\* "What services do you offer?"
T_services ==
    <<"W", "h", "a", "t", " ", "s", "e", "r", "v", "i", "c", "e", "s", " ",
      "d", "o", " ", "y", "o", "u", " ", "o", "f", "f", "e", "r", "?">>

\* "Where are you located?"
T_location ==
    <<"W", "h", "e", "r", "e", " ", "a", "r", "e", " ", "y", "o", "u", " ",
      "l", "o", "c", "a", "t", "e", "d", "?">>

\* "I have severe pain, it's an emergency"
T_emergency ==
    <<"I", " ", "h", "a", "v", "e", " ", "s", "e", "v", "e", "r", "e", " ",
      "p", "a", "i", "n", ",", " ", "i", "t", "'", "s", " ", "a", "n", " ",
      "e", "m", "e", "r", "g", "e", "n", "c", "y">>

\* "How much is a crown?"
T_payment ==
    <<"H", "o", "w", " ", "m", "u", "c", "h", " ", "i", "s", " ", "a", " ",
      "c", "r", "o", "w", "n", "?">>

\* "book an appointment for a cleaning tomorrow at 3pm"
T_book_cleaning ==
    <<"b", "o", "o", "k", " ", "a", "n", " ", "a", "p", "p", "o", "i", "n",
      "t", "m", "e", "n", "t", " ", "f", "o", "r", " ", "a", " ", "c", "l",
      "e", "a", "n", "i", "n", "g", " ", "t", "o", "m", "o", "r", "r", "o",
      "w", " ", "a", "t", " ", "3", "p", "m">>

\* "cancel or move my appointment"
T_cancel_move ==
    <<"c", "a", "n", "c", "e", "l", " ", "o", "r", " ", "m", "o", "v", "e",
      " ", "m", "y", " ", "a", "p", "p", "o", "i", "n", "t", "m", "e", "n",
      "t">>

\* "services and coverage"
T_services_coverage ==
    <<"s", "e", "r", "v", "i", "c", "e", "s", " ", "a", "n", "d", " ", "c",
      "o", "v", "e", "r", "a", "g", "e">>

\* "visit address"
T_visit_address ==
    <<"v", "i", "s", "i", "t", " ", "a", "d", "d", "r", "e", "s", "s">>

\* "what time do you open and close? office hours, operating hours"
T_all_hours ==
    <<"w", "h", "a", "t", " ", "t", "i", "m", "e", " ", "d", "o", " ", "y",
      "o", "u", " ", "o", "p", "e", "n", " ", "a", "n", "d", " ", "c", "l",
      "o", "s", "e", "?", " ", "o", "f", "f", "i", "c", "e", " ", "h", "o",
      "u", "r", "s", ",", " ", "o", "p", "e", "r", "a", "t", "i", "n", "g",
      " ", "h", "o", "u", "r", "s">>

\* "cancel: what time do you open and close? office hours, operating hours"
T_cancel_all_hours ==
    <<"c", "a", "n", "c", "e", "l", ":", " ", "w", "h", "a", "t", " ", "t",
      "i", "m", "e", " ", "d", "o", " ", "y", "o", "u", " ", "o", "p", "e",
      "n", " ", "a", "n", "d", " ", "c", "l", "o", "s", "e", "?", " ", "o",
      "f", "f", "i", "c", "e", " ", "h", "o", "u", "r", "s", ",", " ", "o",
      "p", "e", "r", "a", "t", "i", "n", "g", " ", "h", "o", "u", "r", "s">>

\* "payment plan"
T_plan ==
    <<"p", "a", "y", "m", "e", "n", "t", " ", "p", "l", "a", "n">>

\* "I lost filling on 3rd March, mild pain"
T_lost_filling ==
    <<"I", " ", "l", "o", "s", "t", " ", "f", "i", "l", "l", "i", "n", "g",
      " ", "o", "n", " ", "3", "r", "d", " ", "M", "a", "r", "c", "h", ",",
      " ", "m", "i", "l", "d", " ", "p", "a", "i", "n">>

\* "u do whitening? my appt w/ the dentist is at 10 am"
T_whitening ==
    <<"u", " ", "d", "o", " ", "w", "h", "i", "t", "e", "n", "i", "n", "g",
      "?", " ", "m", "y", " ", "a", "p", "p", "t", " ", "w", "/", " ", "t",
      "h", "e", " ", "d", "e", "n", "t", "i", "s", "t", " ", "i", "s", " ",
      "a", "t", " ", "1", "0", " ", "a", "m">>

\* "Facebook"
T_facebook ==
    <<"F", "a", "c", "e", "b", "o", "o", "k">>

\* "am I covered by Delta for braces"
T_covered ==
    <<"a", "m", " ", "I", " ", "c", "o", "v", "e", "r", "e", "d", " ", "b",
      "y", " ", "D", "e", "l", "t", "a", " ", "f", "o", "r", " ", "b", "r",
      "a", "c", "e", "s">>

\* "Directions to your parking, please"
T_directions ==
    <<"D", "i", "r", "e", "c", "t", "i", "o", "n", "s", " ", "t", "o", " ",
      "y", "o", "u", "r", " ", "p", "a", "r", "k", "i", "n", "g", ",", " ",
      "p", "l", "e", "a", "s", "e">>

Transcripts ==
    {T_none, T_empty, T_spaces, T_newline, T_hello, T_punctuation, T_parking,
       T_parking_plain, T_office_hours, T_free_parking, T_kids,
       T_seven_of_ten, T_six_of_ten, T_park, T_your_hours, T_book, T_cancel,
       T_reschedule, T_hours, T_insurance, T_services, T_location,
       T_emergency, T_payment, T_book_cleaning, T_cancel_move,
       T_services_coverage, T_visit_address, T_all_hours, T_cancel_all_hours,
       T_plan, T_lost_filling, T_whitening, T_facebook, T_covered,
       T_directions}

\* Practice profiles
bare_practice ==
    PracticeConfig(
        (* practice_id = 'p0' *)
        <<"p", "0">>,
        (* name = 'Bare Dental' *)
        <<"B", "a", "r", "e", " ", "D", "e", "n", "t", "a", "l">>,
        (* hours_json = None *)
        NoneVal,
        (* insurances_json = None *)
        NoneVal,
        (* faq_json = {} *)
        <<>>,
        (* services_json = None *)
        NoneVal,
        (* location_json = None *)
        NoneVal)

plain_practice ==
    PracticeConfig(
        (* practice_id = 'p1' *)
        <<"p", "1">>,
        (* name = 'Plain Dental' *)
        <<"P", "l", "a", "i", "n", " ", "D", "e", "n", "t", "a", "l">>,
        (* hours_json = {'mon': ['9am-5pm'], 'sat': [], 'fri': ['9am-1pm', '2pm-4pm']} *)
        << <<"mon", << <<"9", "a", "m", "-", "5", "p", "m">>>>>>, <<"sat",
           <<>>>>, <<"fri", << <<"9", "a", "m", "-", "1", "p", "m">>, <<"2",
           "p", "m", "-", "4", "p", "m">>>>>>>>,
        (* insurances_json = ['Delta', 'Aetna', 'Cigna'] *)
        << <<"D", "e", "l", "t", "a">>, <<"A", "e", "t", "n", "a">>, <<"C",
           "i", "g", "n", "a">>>>,
        (* faq_json = None *)
        NoneVal,
        (* services_json = ['cleanings', 'fillings', 'crowns', 'implants'] *)
        << <<"c", "l", "e", "a", "n", "i", "n", "g", "s">>, <<"f", "i", "l",
           "l", "i", "n", "g", "s">>, <<"c", "r", "o", "w", "n", "s">>, <<"i",
           "m", "p", "l", "a", "n", "t", "s">>>>,
        (* location_json = {'address': '12 Main St'} *)
        << <<"address", <<"1", "2", " ", "M", "a", "i", "n", " ", "S",
           "t">>>>>>)

faq_practice ==
    PracticeConfig(
        (* practice_id = 'p2' *)
        <<"p", "2">>,
        (* name = 'FAQ Dental' *)
        <<"F", "A", "Q", " ", "D", "e", "n", "t", "a", "l">>,
        (* hours_json = None *)
        NoneVal,
        (* insurances_json = ['Delta', 'Aetna'] *)
        << <<"D", "e", "l", "t", "a">>, <<"A", "e", "t", "n", "a">>>>,
        (* faq_json = {'Do you validate parking?': 'Yes, parking is free for patients.', 'What are your office hours?': 'We are open 9 to 5 on weekdays.', 'Is parking free?': 'Parking is free.', 'kids welcome': 'We love kids.', 'abcdefghij': 'Ten letters.'} *)
        << << <<"D", "o", " ", "y", "o", "u", " ", "v", "a", "l", "i", "d",
           "a", "t", "e", " ", "p", "a", "r", "k", "i", "n", "g", "?">>,
           <<"Y", "e", "s", ",", " ", "p", "a", "r", "k", "i", "n", "g", " ",
           "i", "s", " ", "f", "r", "e", "e", " ", "f", "o", "r", " ", "p",
           "a", "t", "i", "e", "n", "t", "s", ".">>>>, << <<"W", "h", "a",
           "t", " ", "a", "r", "e", " ", "y", "o", "u", "r", " ", "o", "f",
           "f", "i", "c", "e", " ", "h", "o", "u", "r", "s", "?">>, <<"W",
           "e", " ", "a", "r", "e", " ", "o", "p", "e", "n", " ", "9", " ",
           "t", "o", " ", "5", " ", "o", "n", " ", "w", "e", "e", "k", "d",
           "a", "y", "s", ".">>>>, << <<"I", "s", " ", "p", "a", "r", "k",
           "i", "n", "g", " ", "f", "r", "e", "e", "?">>, <<"P", "a", "r",
           "k", "i", "n", "g", " ", "i", "s", " ", "f", "r", "e", "e",
           ".">>>>, << <<"k", "i", "d", "s", " ", "w", "e", "l", "c", "o",
           "m", "e">>, <<"W", "e", " ", "l", "o", "v", "e", " ", "k", "i",
           "d", "s", ".">>>>, << <<"a", "b", "c", "d", "e", "f", "g", "h",
           "i", "j">>, <<"T", "e", "n", " ", "l", "e", "t", "t", "e", "r",
           "s", ".">>>>>>,
        (* services_json = ['cleanings'] *)
        << <<"c", "l", "e", "a", "n", "i", "n", "g", "s">>>>,
        (* location_json = {'city': 'Springfield'} *)
        << <<"city", <<"S", "p", "r", "i", "n", "g", "f", "i", "e", "l",
           "d">>>>>>)

\* Profiles whose stored JSON lists hold a null
null_insurance_practice ==
    PracticeConfig(
        (* practice_id = 'p3' *)
        <<"p", "3">>,
        (* name = 'Null Dental' *)
        <<"N", "u", "l", "l", " ", "D", "e", "n", "t", "a", "l">>,
        (* hours_json = None *)
        NoneVal,
        (* insurances_json = ['Delta', None] *)
        << <<"D", "e", "l", "t", "a">>, NoneVal>>,
        (* faq_json = {'Is parking free?': 'Parking is free.'} *)
        << << <<"I", "s", " ", "p", "a", "r", "k", "i", "n", "g", " ", "f",
           "r", "e", "e", "?">>, <<"P", "a", "r", "k", "i", "n", "g", " ",
           "i", "s", " ", "f", "r", "e", "e", ".">>>>>>,
        (* services_json = ['cleanings', 'crowns', 'implants', None] *)
        << <<"c", "l", "e", "a", "n", "i", "n", "g", "s">>, <<"c", "r", "o",
           "w", "n", "s">>, <<"i", "m", "p", "l", "a", "n", "t", "s">>,
           NoneVal>>,
        (* location_json = None *)
        NoneVal)

null_service_practice ==
    PracticeConfig(
        (* practice_id = 'p4' *)
        <<"p", "4">>,
        (* name = 'Void Dental' *)
        <<"V", "o", "i", "d", " ", "D", "e", "n", "t", "a", "l">>,
        (* hours_json = None *)
        NoneVal,
        (* insurances_json = None *)
        NoneVal,
        (* faq_json = None *)
        NoneVal,
        (* services_json = [None, 'cleanings'] *)
        <<NoneVal, <<"c", "l", "e", "a", "n", "i", "n", "g", "s">>>>,
        (* location_json = None *)
        NoneVal)

Practices == {NoPractice, bare_practice, plain_practice, faq_practice, null_insurance_practice, null_service_practice}
---------------------------------------------------------------------------
(* Calls of get_next_question that run on two threads at once *)

Threads == {1, 2}

\* no call is in progress
NoCalls == [base |-> <<>>, frames |-> <<>>]

\* the locals of a call that has just been entered
Frame(session_id, user_response) ==
    [session_id |-> session_id,
     user_response |-> user_response,
     pc |-> "lookup",
     branch |-> NoneVal,
     reply |-> NoneVal]

\* the body of the branch a call selected when it compared current_step,
\* run on the session as it is now: a branch that assigns no step leaves
\* the step alone and reports the step it reads
branch_body(session, branch, session_id, user_response) ==
    LET out == next_question([session EXCEPT !.current_step = branch],
                             session_id, user_response)
    IN  IF out.session.current_step /= branch
        THEN out
        ELSE [session |-> session,
              result |-> IF "step" \in DOMAIN out.result
                         THEN [out.result EXCEPT !.step = session.current_step]
                         ELSE out.result]

\* what callers say when two deliveries of one call race
RaceReplies(current_step) ==
    IF current_step = GATHER_NAME THEN {NoneVal, U_jane}
    ELSE IF current_step = GATHER_PHONE THEN {NoneVal, U_phone10}
    ELSE IF current_step = GATHER_SERVICE THEN {NoneVal, U_cavity}
    ELSE IF current_step = CONFIRM_DETAILS THEN {U_Yes, U_name}
    ELSE {NoneVal}

---------------------------------------------------------------------------
(* Operations *)

Init ==
    /\ active_sessions = <<>>
    /\ now = 0
    /\ call = [op |-> "init"]
    /\ result = [returns |-> NoneVal]
    /\ inflight = NoCalls

\* the clock advances between calls
Tick ==
    /\ now < MaxTime
    /\ now' = now + 1
    /\ UNCHANGED <<active_sessions, call, result, inflight>>

StartBookingSession(call_id) ==
    LET session_id == make_session_id(call_id, now)
    IN  /\ \/ session_id \in DOMAIN active_sessions
           \/ Cardinality(DOMAIN active_sessions) < MaxSessions
        /\ active_sessions' =
              [k \in DOMAIN active_sessions \cup {session_id} |->
                  IF k = session_id
                  THEN BookingSession(session_id, call_id, INITIAL_INTENT, now)
                  ELSE active_sessions[k]]
        /\ call' = [op |-> "start_booking_session", call_id |-> call_id]
        /\ result' = [returns |-> session_id]
        /\ UNCHANGED <<now, inflight>>

GetNextQuestion(session_id, user_response) ==
    LET out == get_next_question(active_sessions, session_id, user_response, now)
    IN  /\ active_sessions' = out.sessions
        /\ call' = [op |-> "get_next_question", session_id |-> session_id,
                    user_response |-> user_response]
        /\ result' = out.result
        /\ UNCHANGED <<now, inflight>>

GetSessionSummary(session_id) ==
    /\ call' = [op |-> "get_session_summary", session_id |-> session_id]
    /\ result' = get_session_summary(active_sessions, session_id)
    /\ UNCHANGED <<active_sessions, now, inflight>>

EndSession(session_id) ==
    LET out == end_session(active_sessions, session_id)
    IN  /\ active_sessions' = out.sessions
        /\ call' = [op |-> "end_session", session_id |-> session_id]
        /\ result' = out.result
        /\ UNCHANGED <<now, inflight>>

GetActiveSessionsCount ==
    /\ call' = [op |-> "get_active_sessions_count"]
    /\ result' = [returns |-> get_active_sessions_count(active_sessions)]
    /\ UNCHANGED <<active_sessions, now, inflight>>

\* several callers, short replies
Next ==
    \/ Tick
    \/ \E call_id \in CallIds : StartBookingSession(call_id)
    \/ \E session_id \in SessionIds, user_response \in Replies :
          GetNextQuestion(session_id, user_response)
    \/ \E session_id \in SessionIds : GetSessionSummary(session_id)
    \/ \E session_id \in SessionIds : EndSession(session_id)
    \/ GetActiveSessionsCount

Spec == Init /\ [][Next]_vars

\* one caller's conversation, any utterance at any step
FlowNext ==
    \/ /\ DOMAIN active_sessions = {}
       /\ StartBookingSession("callA")
    \/ \E session_id \in DOMAIN active_sessions, user_response \in Utterances :
          GetNextQuestion(session_id, user_response)
    \/ \E session_id \in DOMAIN active_sessions : EndSession(session_id)

FlowSpec == Init /\ [][FlowNext]_vars

\* one caller who answers the question asked
DialogueNext ==
    \/ /\ DOMAIN active_sessions = {}
       /\ StartBookingSession("callA")
    \/ \E session_id \in DOMAIN active_sessions :
          \E user_response \in Said(active_sessions[session_id].current_step) :
             GetNextQuestion(session_id, user_response)

DialogueSpec == Init /\ [][DialogueNext]_vars

\* one conversation in which the caller names the service in many ways
ServiceNext ==
    \/ (DOMAIN active_sessions = {} /\ StartBookingSession("callA"))
    \/ \E session_id \in DOMAIN active_sessions :
          \E user_response \in SaidForService(active_sessions[session_id].current_step) :
             GetNextQuestion(session_id, user_response)
    \/ \E session_id \in DOMAIN active_sessions : EndSession(session_id)

ServiceSpec == Init /\ [][ServiceNext]_vars

\* A caller who answers every prompt with a non-empty utterance, and what an
\* observer of the conversation remembers: the last two confirmation
\* summaries and the step the last correction went back to
U_john == <<"J", "o", "h", "n", " ", "R", "o", "e">>

Answers(current_step) ==
    IF current_step = INITIAL_INTENT THEN {U_exam_appointment}
    ELSE IF current_step = GATHER_NAME THEN {U_jane, U_john}
    ELSE IF current_step = GATHER_PHONE THEN {U_phone10, U_phone11}
    ELSE IF current_step = GATHER_SERVICE THEN {U_cavity, U_exam_appointment}
    ELSE IF current_step = CONFIRM_DETAILS
    THEN {U_Yes, U_no, U_name, U_wrong_phone, U_service}
    ELSE {U_Yes}

\* no confirmation summary was given yet
NoSummary == [name |-> NoneVal, phone |-> NoneVal, service |-> NoneVal]

\* what was remembered under a key, or nothing at the start
remembered(key, nothing) == IF key \in DOMAIN call THEN call[key] ELSE nothing

\* get_next_question(session_id, user_response), observed
Answer(session_id, user_response) ==
    LET out == get_next_question(active_sessions, session_id, user_response, now)
    IN  /\ active_sessions' = out.sessions
        /\ call' = [op |-> "get_next_question", session_id |-> session_id,
                    user_response |-> user_response,
                    summary |-> IF "confirmation_data" \in DOMAIN out.result
                                THEN out.result.confirmation_data
                                ELSE remembered("summary", NoSummary),
                    earlier_summary |-> IF "confirmation_data" \in DOMAIN out.result
                                        THEN remembered("summary", NoSummary)
                                        ELSE remembered("earlier_summary", NoSummary),
                    corrected |-> IF /\ active_sessions[session_id].current_step
                                          = CONFIRM_DETAILS
                                     /\ out.sessions[session_id].current_step
                                          \in {GATHER_NAME, GATHER_PHONE, GATHER_SERVICE}
                                  THEN out.sessions[session_id].current_step
                                  ELSE remembered("corrected", "none")]
        /\ result' = out.result
        /\ UNCHANGED <<now, inflight>>

CorrectionNext ==
    \/ (DOMAIN active_sessions = {} /\ StartBookingSession("callA"))
    \/ \E session_id \in DOMAIN active_sessions :
          \E user_response \in Answers(active_sessions[session_id].current_step) :
             Answer(session_id, user_response)

CorrectionSpec == Init /\ [][CorrectionNext]_vars

\* two threads enter get_next_question for one session
EnterBoth(session_id, first_response, second_response) ==
    /\ inflight = NoCalls
    /\ inflight' = [base |-> active_sessions,
                    frames |-> <<Frame(session_id, first_response),
                                 Frame(session_id, second_response)>>]
    /\ UNCHANGED <<active_sessions, now, call, result>>

\* session = self.active_sessions.get(session_id); if not session: return
Lookup(thread) ==
    /\ inflight /= NoCalls
    /\ inflight.frames[thread].pc = "lookup"
    /\ inflight' =
         IF inflight.frames[thread].session_id \in DOMAIN active_sessions
         THEN [inflight EXCEPT !.frames[thread].pc = "update"]
         ELSE [inflight EXCEPT !.frames[thread].pc = "done",
                               !.frames[thread].reply = [error |-> "Session not found"]]
    /\ UNCHANGED <<active_sessions, now, call, result>>

\* if user_response: self._update_session_with_response(...)
Update(thread) ==
    /\ inflight /= NoCalls
    /\ inflight.frames[thread].pc = "update"
    /\ LET frame == inflight.frames[thread]
       IN  active_sessions' =
             IF Truthy(frame.user_response)
             THEN [active_sessions EXCEPT ![frame.session_id] =
                     update_session_with_response(@, frame.user_response, now)]
             ELSE active_sessions
    /\ inflight' = [inflight EXCEPT !.frames[thread].pc = "dispatch"]
    /\ UNCHANGED <<now, call, result>>

\* the if/elif chain compares session.current_step and selects a branch
Dispatch(thread) ==
    /\ inflight /= NoCalls
    /\ inflight.frames[thread].pc = "dispatch"
    /\ inflight' =
         [inflight EXCEPT
            !.frames[thread].pc = "body",
            !.frames[thread].branch =
               active_sessions[inflight.frames[thread].session_id].current_step]
    /\ UNCHANGED <<active_sessions, now, call, result>>

\* the selected branch checks the field, assigns the step and returns
Body(thread) ==
    /\ inflight /= NoCalls
    /\ inflight.frames[thread].pc = "body"
    /\ LET frame == inflight.frames[thread]
           out == branch_body(active_sessions[frame.session_id], frame.branch,
                              frame.session_id, frame.user_response)
       IN  /\ active_sessions' =
                [active_sessions EXCEPT ![frame.session_id] = out.session]
           /\ inflight' = [inflight EXCEPT !.frames[thread].pc = "done",
                                           !.frames[thread].reply = out.result]
    /\ UNCHANGED <<now, call, result>>

\* both callers have their replies
ReturnBoth ==
    /\ inflight /= NoCalls
    /\ \A thread \in Threads : inflight.frames[thread].pc = "done"
    /\ inflight' = NoCalls
    /\ call' = [op |-> "get_next_question",
                session_id |-> inflight.frames[2].session_id,
                user_response |-> inflight.frames[2].user_response]
    /\ result' = inflight.frames[2].reply
    /\ UNCHANGED <<active_sessions, now>>

\* one conversation in which two deliveries of a reply may be handled at once
RaceNext ==
    \/ (DOMAIN active_sessions = {} /\ inflight = NoCalls
          /\ StartBookingSession("callA"))
    \/ \E session_id \in DOMAIN active_sessions :
          \E user_response \in RaceReplies(active_sessions[session_id].current_step) :
             inflight = NoCalls /\ GetNextQuestion(session_id, user_response)
    \/ \E session_id \in DOMAIN active_sessions :
          \E first_response, second_response \in
                RaceReplies(active_sessions[session_id].current_step) :
             EnterBoth(session_id, first_response, second_response)
    \/ \E thread \in Threads : Lookup(thread)
    \/ \E thread \in Threads : Update(thread)
    \/ \E thread \in Threads : Dispatch(thread)
    \/ \E thread \in Threads : Body(thread)
    \/ ReturnBoth

RaceSpec == Init /\ [][RaceNext]_vars

\* The matcher on its own: a webhook has received a transcript for a
\* practice, and the matcher has not yet been called
AnalyzeInit ==
    /\ active_sessions = <<>>
    /\ now = 0
    /\ \E transcript \in Transcripts : \E practice_config \in Practices :
          call = [op |-> "webhook",
                  transcript |-> transcript,
                  practice_config |-> practice_config]
    /\ result = [returns |-> NoneVal]
    /\ inflight = NoCalls

\* await faq_matcher.analyze_transcript(transcript, practice_config)
AnalyzeTranscript ==
    /\ call.op = "webhook"
    /\ call' = [call EXCEPT !.op = "analyze_transcript"]
    /\ result' = IF analyze_transcript_raises(call.transcript, call.practice_config)
                 THEN [raises |-> "TypeError"]
                 ELSE [returns |-> analyze_transcript(call.transcript,
                                                      call.practice_config)]
    /\ UNCHANGED <<active_sessions, now, inflight>>

AnalyzeNext == AnalyzeTranscript

AnalyzeSpec == AnalyzeInit /\ [][AnalyzeNext]_vars

---------------------------------------------------------------------------
(* The webhook of the telephony platform, for function-call events sent as
   {"query": ..., "phone_number": ...}; the record store is a collaborator
   whose outcomes are inputs *)

\* the tables of the record store as one request finds them: whether the
\* client was created, what the select on "tenants" does and what the insert
\* into "calls" does
SelectOutcomes ==
    {[raises |-> TRUE, data |-> <<>>],
     [raises |-> FALSE, data |-> <<>>],
     [raises |-> FALSE, data |-> <<plain_practice>>],
     [raises |-> FALSE, data |-> <<faq_practice>>],
     [raises |-> FALSE, data |-> <<null_service_practice>>]}

InsertOutcomes == {"raises", "no data", "inserted"}

Stores ==
    {[supabase |-> NoneVal, tenants |-> [raises |-> TRUE, data |-> <<>>],
      calls |-> "raises"]}
    \cup {[supabase |-> <<"client">>, tenants |-> tenants, calls |-> calls] :
             tenants \in SelectOutcomes, calls \in InsertOutcomes}

\* the queries of the function calls
Queries ==
    {T_empty, T_spaces, T_hello, T_parking, T_hours, T_insurance, T_services,
     T_location, T_book}

\* _get_practice_config: the profile made from the first record, or None
\* with the failure logged
get_practice_config(store) ==
    IF store.tenants.raises
    THEN [returns |-> NoPractice, errors |-> <<"Error fetching practice config">>]
    ELSE IF store.tenants.data /= <<>>
    THEN [returns |-> store.tenants.data[1], errors |-> <<>>]
    ELSE [returns |-> NoPractice, errors |-> <<>>]

\* the default error response of _analyze_transcript_and_generate_response
technical_difficulties ==
    <<"I apologize, but I'm experiencing technical difficulties. Please try again later or contact our office directly.">>

\* the try block of _analyze_transcript_and_generate_response, after the
\* profile was fetched
analysis_with(transcript, fetched) ==
    IF analyze_transcript_raises(transcript, fetched.returns)
    THEN [intent |-> UNKNOWN,
          text |-> technical_difficulties,
          practice_id |-> NoneVal,
          errors |-> fetched.errors \o <<"Intent analysis failed">>]
    ELSE [intent |-> analyze_transcript(transcript, fetched.returns).intent,
          text |-> analyze_transcript(transcript, fetched.returns).suggested_response,
          practice_id |-> IF IsNone(fetched.returns) THEN NoneVal
                          ELSE fetched.returns.practice_id,
          errors |-> fetched.errors]

\* _analyze_transcript_and_generate_response
analyze_transcript_and_generate_response(transcript, store) ==
    analysis_with(transcript, get_practice_config(store))

\* _insert_call_record: the failure of the insert is logged and None returned
insert_call_record(store) ==
    IF store.calls = "raises" THEN <<"Database insertion failed">>
    ELSE IF store.calls = "no data" THEN <<"Failed to insert record - No data returned">>
    ELSE <<>>

\* text.replace('\n', ' ') for a text given by its characters
single_line(text) ==
    [i \in 1..Len(text) |-> IF text[i] = "\n" THEN " " ELSE text[i]]

\* response_text.replace('\n', ' '): the answer of a practice is a text of the
\* profile; every other response is made of the templates of the source and
\* of words of the normalized transcript and the profile lists, which hold no
\* line break
response_line(intent, response_text) ==
    IF intent = FAQ_SPECIFIC THEN single_line(response_text) ELSE response_text

\* the function-call branch of vapi_webhook for a transcript, after the
\* analysis
function_call_result(analysis_result, store) ==
    [returns |-> [results |-> <<[toolCallId |-> "unknown",
                                 result |-> response_line(analysis_result.intent,
                                                         analysis_result.text)]>>],
     inserted |-> IF store.calls = "inserted"
                  THEN <<[tenant_id |-> analysis_result.practice_id,
                          status |-> "in_progress",
                          intent |-> analysis_result.intent,
                          response_text |-> analysis_result.text]>>
                  ELSE <<>>,
     errors |-> analysis_result.errors \o insert_call_record(store)]

\* vapi_webhook for a function-call event: an HTTPException raised inside
\* the try is logged and raised again
vapi_webhook(query, store) ==
    IF store.supabase = NoneVal
    THEN [raises |-> [status_code |-> 500, detail |-> "Database not available"],
          inserted |-> <<>>,
          errors |-> <<"Database client not initialized - check Supabase configuration",
                       "HTTP Exception">>]
    ELSE IF Truthy(query)
    THEN function_call_result(analyze_transcript_and_generate_response(query, store),
                              store)
    ELSE [raises |-> [status_code |-> 400,
                      detail |-> "Invalid function call data: Missing query"],
          inserted |-> <<>>,
          errors |-> <<"No transcript provided in function call", "HTTP Exception">>]

\* a function-call event has arrived, and the store is in some condition
WebhookInit ==
    /\ active_sessions = <<>>
    /\ now = 0
    /\ \E query \in Queries : \E store \in Stores :
          call = [op |-> "request", transcript |-> query, store |-> store]
    /\ result = [returns |-> NoneVal]
    /\ inflight = NoCalls

\* POST /incoming_call
VapiWebhook ==
    /\ call.op = "request"
    /\ call' = [call EXCEPT !.op = "vapi_webhook"]
    /\ result' = vapi_webhook(call.transcript, call.store)
    /\ UNCHANGED <<active_sessions, now, inflight>>

WebhookNext == VapiWebhook

WebhookSpec == WebhookInit /\ [][WebhookNext]_vars

---------------------------------------------------------------------------
(* Vocabulary of the properties *)

\* the step taken is a call of the operation op
Called(op) == call'.op = op /\ now' = now

\* the step taken is get_next_question on a session that exists
AdvanceCalled ==
    Called("get_next_question") /\ call'.session_id \in DOMAIN active_sessions

Before == active_sessions[call'.session_id]
After == active_sessions'[call'.session_id]
Utterance == call'.user_response

\* the last call was get_next_question on a session that still exists
Advanced ==
    call.op = "get_next_question" /\ call.session_id \in DOMAIN active_sessions

Current == active_sessions[call.session_id]

GatherSteps == {GATHER_NAME, GATHER_PHONE, GATHER_SERVICE}

NextStep(step) == BookingStep[StepIndex(step) + 1]

\* the utterance has a character that is not whitespace
HasContent(u) == u /= NoneVal /\ \E i \in 1..Len(u) : u[i] \notin Whitespace

\* the utterance contains a positive phrase, whatever its case
SaysYes(u) ==
    u /= NoneVal /\ \E k \in 1..Len(positive_words) : contains(lower(u), positive_words[k])

\* the gather steps of the fields the utterance names
NamedSteps(u) ==
    (IF contains(lower(u), W_name) THEN {GATHER_NAME} ELSE {})
    \cup (IF contains(lower(u), W_phone) \/ contains(lower(u), W_number)
          THEN {GATHER_PHONE} ELSE {})
    \cup (IF contains(lower(u), W_service) \/ contains(lower(u), W_appointment)
          THEN {GATHER_SERVICE} ELSE {})

\* a reply to the confirmation that is not positive and names a field
IsCorrectionRequest(u) == u /= NoneVal /\ ~SaysYes(u) /\ NamedSteps(u) /= {}

\* "(AAA) BBB-CCCC"
PhoneFormat(a, b, c) == <<"(">> \o a \o <<")", " ">> \o b \o <<"-">> \o c

V_jane == <<"J", "a", "n", "e", " ", "D", "o", "e">>
V_phone == <<"(", "5", "5", "5", ")", " ", "1", "1", "1", "-", "2", "2", "2", "2">>
V_checkup == <<"c", "h", "e", "c", "k", "u", "p">>
V_raw_phone10 == <<"5", "5", "5", "-", "1", "1", "1", "-", "2", "2", "2", "2">>

---------------------------------------------------------------------------
(* Properties of the booking flow *)

\* C1: start_booking_session creates the session in initial_intent; the first
\* get_next_question moves it to gather_name; in gather_name, gather_phone and
\* gather_service a call whose answer has content moves exactly one step
\* forward; the reply that enters confirm_details carries confirmation_data
\* equal to the stored name, phone and service; a positive confirmation moves
\* confirm_details to check_availability.
C1_HappyPath ==
    [][/\ Called("start_booking_session") =>
            /\ result'.returns \in DOMAIN active_sessions'
            /\ active_sessions'[result'.returns].current_step = INITIAL_INTENT
       /\ AdvanceCalled =>
            /\ Before.current_step = INITIAL_INTENT
                  => After.current_step = GATHER_NAME
            /\ (Before.current_step \in GatherSteps /\ HasContent(Utterance))
                  => After.current_step = NextStep(Before.current_step)
            /\ (Before.current_step = GATHER_SERVICE
                    /\ After.current_step = CONFIRM_DETAILS)
                  => /\ "confirmation_data" \in DOMAIN result'
                     /\ result'.confirmation_data =
                           [name |-> After.customer_name,
                            phone |-> After.customer_phone,
                            service |-> After.service_type]
            /\ (Before.current_step = CONFIRM_DETAILS /\ SaysYes(Utterance))
                  => After.current_step = CHECK_AVAILABILITY]_vars

\* the conversation of the example has reached check_availability
C1_Witness ==
    /\ Advanced
    /\ call.user_response = U_Yes
    /\ Current.current_step = CHECK_AVAILABILITY
    /\ result.step = CHECK_AVAILABILITY
    /\ Current.customer_name = V_jane
    /\ Current.customer_phone = V_phone
    /\ Current.service_type = V_checkup

\* C2: a get_next_question call never moves current_step to an earlier step,
\* except that a correction request made in confirm_details may move it back
\* to gather_name, gather_phone or gather_service.
C2_ForwardOnly ==
    [][(AdvanceCalled
          /\ StepIndex(After.current_step) < StepIndex(Before.current_step))
        => /\ Before.current_step = CONFIRM_DETAILS
           /\ IsCorrectionRequest(Utterance)
           /\ After.current_step \in GatherSteps]_vars

\* a correction has moved the session back from confirm_details
C2_Witness ==
    /\ Advanced
    /\ IsCorrectionRequest(call.user_response)
    /\ result.step_description = "Updating customer name"
    /\ Current.current_step = GATHER_NAME
    /\ Truthy(Current.service_type)

\* C3: get_next_question never raises, in any step and for any utterance,
\* None and the empty one included.
C3_NeverRaises == "raises" \notin DOMAIN result

\* C4: get_next_question on an id that is not in the mapping returns the
\* error "Session not found", creates no session and leaves every session
\* and the number of sessions unchanged.
C4_UnknownSession ==
    [][(Called("get_next_question")
          /\ call'.session_id \notin DOMAIN active_sessions)
        => /\ result' = [error |-> "Session not found"]
           /\ active_sessions' = active_sessions
           /\ Cardinality(DOMAIN active_sessions')
                = Cardinality(DOMAIN active_sessions)]_vars

\* an unknown id was asked for while another session was active
C4_Witness ==
    /\ call.op = "get_next_question"
    /\ call.session_id \notin DOMAIN active_sessions
    /\ result = [error |-> "Session not found"]
    /\ \E k \in DOMAIN active_sessions :
          active_sessions[k].current_step = GATHER_PHONE

\* C5: a phone answer with exactly 11 digits and a leading 1 is stored as
\* "(AAA) BBB-CCCC" built from its digits 2-4, 5-7 and 8-11.
C5_ElevenDigits ==
    [][(AdvanceCalled /\ Before.current_step = GATHER_PHONE /\ Truthy(Utterance))
        => LET d == digits_only(Utterance)
           IN  (Len(d) = 11 /\ d[1] = "1")
                 => After.customer_phone =
                      PhoneFormat(SubSeq(d, 2, 4), SubSeq(d, 5, 7), SubSeq(d, 8, 11))]_vars

\* C6: a phone answer with exactly 10 digits is stored as "(AAA) BBB-CCCC"
\* from those digits in order; one with neither 10 digits nor 11 digits and a
\* leading 1 is stored as its trimmed text; and whenever the stored value is
\* not empty the step advances to gather_service.
C6_TenDigitsOrVerbatim ==
    [][(AdvanceCalled /\ Before.current_step = GATHER_PHONE /\ Truthy(Utterance))
        => LET d == digits_only(Utterance)
           IN  /\ Len(d) = 10
                    => After.customer_phone =
                         PhoneFormat(SubSeq(d, 1, 3), SubSeq(d, 4, 6), SubSeq(d, 7, 10))
               /\ (Len(d) /= 10 /\ ~(Len(d) = 11 /\ d[1] = "1"))
                    => After.customer_phone = strip(Utterance)
               /\ After.customer_phone /= <<>>
                    => After.current_step = GATHER_SERVICE]_vars

\* an answer that cannot be formatted was stored trimmed and the step advanced
C6_Witness ==
    /\ Advanced
    /\ call.user_response = <<" ", "1", "2", "3", " ">>
    /\ Current.customer_phone = <<"1", "2", "3">>
    /\ Current.current_step = GATHER_SERVICE

\* C7: in confirm_details a correction request moves current_step to the
\* gather step of a field it names and leaves customer_name, customer_phone
\* and service_type unchanged.
C7_CorrectionKeepsFields ==
    [][(AdvanceCalled /\ Before.current_step = CONFIRM_DETAILS
          /\ IsCorrectionRequest(Utterance))
        => /\ After.current_step \in NamedSteps(Utterance)
           /\ After.customer_name = Before.customer_name
           /\ After.customer_phone = Before.customer_phone
           /\ After.service_type = Before.service_type]_vars

\* "no, wrong phone number" has moved the session back to gather_phone
C7_Witness ==
    /\ Advanced
    /\ call.user_response = U_wrong_phone
    /\ result.step = GATHER_PHONE
    /\ Current.current_step = GATHER_PHONE
    /\ Current.customer_name = V_jane
    /\ Current.customer_phone = V_phone
    /\ Current.service_type = V_checkup

\* the step the priority name, phone/number, service/appointment selects
ExpectedTarget(u) ==
    IF contains(lower(u), W_name) THEN GATHER_NAME
    ELSE IF contains(lower(u), W_phone) \/ contains(lower(u), W_number)
    THEN GATHER_PHONE
    ELSE IF contains(lower(u), W_service) \/ contains(lower(u), W_appointment)
    THEN GATHER_SERVICE
    ELSE CONFIRM_DETAILS

\* C8: in confirm_details a reply that is not positive selects the step by
\* priority: gather_name if it contains "name", else gather_phone if it
\* contains "phone" or "number", else gather_service if it contains "service"
\* or "appointment"; with none of these the step stays confirm_details and
\* the caller is asked which field to change.
C8_CorrectionPriority ==
    [][(AdvanceCalled /\ Before.current_step = CONFIRM_DETAILS
          /\ Utterance /= NoneVal /\ ~SaysYes(Utterance))
        => /\ After.current_step = ExpectedTarget(Utterance)
           /\ result'.step = ExpectedTarget(Utterance)
           /\ ExpectedTarget(Utterance) = CONFIRM_DETAILS
                => /\ result'.step_description = "Clarifying changes"
                   /\ result'.requires_response]_vars

\* a reply naming two fields went to the one that comes first
C8_Witness ==
    /\ Advanced
    /\ call.user_response = U_phone_service
    /\ Current.current_step = GATHER_PHONE
    /\ result.step_description = "Updating phone number"

\* C9: in confirm_details a reply containing a positive phrase, in any case,
\* moves the session to check_availability, also when it contains a field
\* word.
C9_PositiveFirst ==
    [][(AdvanceCalled /\ Before.current_step = CONFIRM_DETAILS
          /\ SaysYes(Utterance))
        => /\ After.current_step = CHECK_AVAILABILITY
           /\ result'.step = CHECK_AVAILABILITY]_vars

\* a reply with a positive phrase and a field word was taken as a yes
C9_Witness ==
    /\ Advanced
    /\ call.user_response = U_name_is_right
    /\ NamedSteps(call.user_response) /= {}
    /\ Current.current_step = CHECK_AVAILABILITY
    /\ result.step = CHECK_AVAILABILITY

\* C10: a get_next_question call changes customer_name only in gather_name,
\* customer_phone only in gather_phone and service_type only in
\* gather_service, so at most one field, and none in the other steps.
C10_OneFieldPerStep ==
    [][AdvanceCalled
        => /\ After.customer_name /= Before.customer_name
                => Before.current_step = GATHER_NAME
           /\ After.customer_phone /= Before.customer_phone
                => Before.current_step = GATHER_PHONE
           /\ After.service_type /= Before.service_type
                => Before.current_step = GATHER_SERVICE]_vars

\* a phone number said when the name was asked became the name only
C10_Witness ==
    /\ Advanced
    /\ call.user_response = U_phone10
    /\ Current.current_step = GATHER_PHONE
    /\ Current.customer_name = V_raw_phone10
    /\ Current.customer_phone = NoneVal
    /\ Current.service_type = NoneVal

---------------------------------------------------------------------------
(* Properties of the session mapping *)

\* the collected fields of a session
Collected(session) ==
    <<session.customer_name, session.customer_phone, session.service_type>>

\* C11: every get_next_question call that changes the step or a collected
\* field of a session sets its updated_at to the time of the call, also when
\* it carries no utterance and only changes the step.
C11_MutationStamps ==
    [][(AdvanceCalled
          /\ (After.current_step /= Before.current_step
                \/ Collected(After) /= Collected(Before)))
        => After.updated_at = now]_vars

\* the step the call addresses is a call on the session id of the last call
SameId(op) == Called(op) /\ call'.session_id = call.session_id

\* C12: end_session returns true exactly when the id is in the mapping, and
\* the id is absent afterwards: a get_next_question that follows returns
\* "Session not found", a get_session_summary None, an end_session false.
C12_EndSession ==
    [][/\ Called("end_session") =>
            /\ result'.returns = (call'.session_id \in DOMAIN active_sessions)
            /\ call'.session_id \notin DOMAIN active_sessions'
            /\ \A k \in DOMAIN active_sessions \ {call'.session_id} :
                  k \in DOMAIN active_sessions'
                    /\ active_sessions'[k] = active_sessions[k]
       /\ (call.op = "end_session" /\ SameId("get_next_question"))
            => result' = [error |-> "Session not found"]
       /\ (call.op = "end_session" /\ SameId("get_session_summary"))
            => result' = [returns |-> NoneVal]
       /\ (call.op = "end_session" /\ SameId("end_session"))
            => result' = [returns |-> FALSE]]_vars

\* a session that had collected a name was ended and another one is left
C12_Witness ==
    /\ call.op = "end_session"
    /\ result = [returns |-> TRUE]
    /\ call.session_id \notin DOMAIN active_sessions
    /\ \E k \in DOMAIN active_sessions : Truthy(active_sessions[k].customer_name)

\* the step is a call of op on a session that is in check_availability
OnHandedOff(op) ==
    /\ Called(op)
    /\ call'.session_id \in DOMAIN active_sessions
    /\ Before.current_step = CHECK_AVAILABILITY

\* C14: once a session is in check_availability every get_next_question
\* leaves its step unchanged, get_session_summary reports the step name and
\* end_session succeeds and removes it.
C14_HandOffIsTerminal ==
    [][/\ OnHandedOff("get_next_question")
            => After.current_step = CHECK_AVAILABILITY
       /\ OnHandedOff("get_session_summary")
            => /\ "current_step" \in DOMAIN result'
               /\ result'.current_step = "check_availability"
       /\ OnHandedOff("end_session")
            => /\ result' = [returns |-> TRUE]
               /\ call'.session_id \notin DOMAIN active_sessions']_vars

\* a session that had reached check_availability was ended
C14_Witness ==
    /\ call.op = "end_session"
    /\ result = [returns |-> TRUE]
    /\ call.session_id \notin DOMAIN active_sessions
    /\ now = MaxTime
    /\ \E k \in DOMAIN active_sessions :
          active_sessions[k].current_step = CHECK_AVAILABILITY

\* the step is get_session_summary on a session that exists
SummaryCalled ==
    Called("get_session_summary") /\ call'.session_id \in DOMAIN active_sessions

\* the eight entries the summary has
SummaryOf(session) ==
    [session_id |-> session.session_id,
     current_step |-> session.current_step,
     customer_name |-> session.customer_name,
     customer_phone |-> session.customer_phone,
     service_type |-> session.service_type,
     urgency |-> session.urgency,
     created_at |-> isoformat(session.created_at),
     updated_at |-> isoformat(session.updated_at)]

\* C15 as stated: the summary of a known session has the session identifier,
\* the step, name, phone, service type, urgency, preferred date, preferred
\* time, selected slot and both timestamps, each with the session's value.
C15_SummaryHasAllFields ==
    [][SummaryCalled
        => /\ \A key \in DOMAIN SummaryOf(Before) :
                 key \in DOMAIN result' /\ result'[key] = SummaryOf(Before)[key]
           /\ "preferred_date" \in DOMAIN result'
           /\ "preferred_time" \in DOMAIN result'
           /\ "selected_slot" \in DOMAIN result']_vars

\* C15 as amended: the summary of a known session has exactly the session
\* identifier, the step, name, phone, service type, urgency and the text of
\* both timestamps, each with the session's current value.
C15_SummaryHasEightFields ==
    [][SummaryCalled => result' = SummaryOf(Before)]_vars

\* the summary of a session whose last update is later than its creation
C15_Witness ==
    /\ call.op = "get_session_summary"
    /\ call.session_id \in DOMAIN active_sessions
    /\ result = SummaryOf(Current)
    /\ Current.updated_at > Current.created_at
    /\ Truthy(Current.customer_name)

---------------------------------------------------------------------------
(* Properties of the service normalisation *)

\* the canonical categories in the order the statement lists them
DeclaredOrder ==
    << <<"c", "l", "e", "a", "n", "i", "n", "g">>,
       <<"c", "h", "e", "c", "k", "u", "p">>,
       <<"e", "m", "e", "r", "g", "e", "n", "c", "y">>,
       <<"f", "i", "l", "l", "i", "n", "g">>,
       <<"c", "r", "o", "w", "n">>,
       <<"r", "o", "o", "t", "_", "c", "a", "n", "a", "l">>,
       <<"e", "x", "t", "r", "a", "c", "t", "i", "o", "n">>,
       <<"w", "h", "i", "t", "e", "n", "i", "n", "g">>,
       <<"b", "r", "a", "c", "e", "s">>,
       <<"i", "m", "p", "l", "a", "n", "t">> >>

\* the categories with a synonym that is a substring of the lower-cased text
Holding(u) ==
    {i \in 1..Len(service_mapping) :
        \E k \in 1..Len(service_mapping[i].variations) :
            contains(lower(u), service_mapping[i].variations[k])}

\* C16: the service stored for an utterance is the first category, in the
\* order cleaning, checkup, emergency, filling, crown, root_canal, extraction,
\* whitening, braces, implant, one of whose synonyms is a substring of the
\* lower-cased utterance; with no such category it is the trimmed utterance.
C16_FirstCategoryWins ==
    [][(AdvanceCalled /\ Before.current_step = GATHER_SERVICE /\ Truthy(Utterance))
        => /\ Len(service_mapping) = Len(DeclaredOrder)
           /\ \A i \in Holding(Utterance) :
                 (\A j \in Holding(Utterance) : i <= j)
                    => After.service_type = DeclaredOrder[i]
           /\ Holding(Utterance) = {} => After.service_type = strip(Utterance)]_vars

\* "emergency cleaning" holds synonyms of two categories and was stored as
\* the earlier one
C16_Witness ==
    /\ Advanced
    /\ call.user_response = U_emergency_cleaning
    /\ Cardinality(Holding(call.user_response)) = 2
    /\ Current.service_type = DeclaredOrder[1]
    /\ Current.current_step = CONFIRM_DETAILS

---------------------------------------------------------------------------
(* Properties of concurrent calls *)

\* the sessions and the two replies when the first call completes before
\* the second one is entered
Serial(sessions, session_id, first_response, second_response) ==
    LET first == get_next_question(sessions, session_id, first_response, now)
        second == get_next_question(first.sessions, session_id, second_response, now)
    IN  [sessions |-> second.sessions, first |-> first.result, second |-> second.result]

\* both calls have returned
BothDone ==
    inflight /= NoCalls /\ \A thread \in Threads : inflight.frames[thread].pc = "done"

\* C13: two get_next_question calls on one session whose steps interleave
\* leave the session and return the replies of one of the two serial orders
\* of the calls.
C13_Serializable ==
    BothDone =>
        LET one == inflight.frames[1]
            two == inflight.frames[2]
            ab == Serial(inflight.base, one.session_id, one.user_response, two.user_response)
            ba == Serial(inflight.base, one.session_id, two.user_response, one.user_response)
        IN  \/ /\ active_sessions = ab.sessions
               /\ one.reply = ab.first
               /\ two.reply = ab.second
            \/ /\ active_sessions = ba.sessions
               /\ two.reply = ba.first
               /\ one.reply = ba.second

---------------------------------------------------------------------------
(* Properties of the intent recognition *)

\* analyze_transcript has returned
Analyzed == call.op = "analyze_transcript" /\ "returns" \in DOMAIN result

\* an empty or whitespace-only transcript
Blank(transcript) ==
    \/ transcript = NoneVal
    \/ \A i \in 1..Len(transcript) : transcript[i] \in Whitespace

\* C17: for every empty or whitespace-only transcript, with or without a
\* practice profile, analyze_transcript returns and does not raise: the
\* category is unknown, the confidence 0.0, there are no matched keywords and
\* no entities, and the response is the non-empty prompt to repeat the
\* question.
C17_BlankTranscript ==
    (call.op = "analyze_transcript" /\ Blank(call.transcript)) =>
        /\ "returns" \in DOMAIN result
        /\ result.returns.intent = UNKNOWN
        /\ Same(result.returns.confidence, Zero)
        /\ result.returns.matched_keywords = <<>>
        /\ DOMAIN result.returns.extracted_entities = {}
        /\ result.returns.suggested_response /= <<>>
        /\ result.returns.suggested_response
              = <<"I didn't catch that. Could you please repeat your question?">>

\* a whitespace-only transcript for a practice with FAQs was answered
C17_Witness ==
    /\ Analyzed
    /\ call.transcript = T_newline
    /\ ~IsNone(call.practice_config)
    /\ Truthy(call.practice_config.faq_json)
    /\ result.returns.intent = UNKNOWN

\* a practice profile with FAQs is supplied
HasFaqs(practice_config) ==
    ~IsNone(practice_config) /\ Truthy(practice_config.faq_json)

\* the similarity of the transcript to each question of the practice
FaqScores(transcript, faq_json) ==
    {[k |-> k,
      score |-> similarity(normalize_text(transcript), normalize_text(faq_json[k][1]))] :
        k \in 1..Len(faq_json)}

\* the first of the questions with the best similarity
BestFaq(scores) ==
    CHOOSE best \in scores :
        \A other \in scores :
            /\ AtMost(other.score, best.score)
            /\ other.k < best.k => Less(other.score, best.score)

\* the category, confidence and keywords are those of the generic
\* classification of the transcript
FromGeneric(returned, transcript) ==
    LET generic == best_intent(intent_patterns, normalize_text(transcript), 1, no_intent)
    IN  /\ returned.intent = generic.best_intent
        /\ Same(returned.confidence, generic.best_confidence)
        /\ returned.matched_keywords = generic.matched_keywords

\* the result for a transcript whose best FAQ is given
FaqFirst(returned, transcript, faq_json, best) ==
    IF AtMost(Ratio(7, 10), best.score)
    THEN /\ returned.intent = FAQ_SPECIFIC
         /\ Same(returned.confidence, best.score)
         /\ returned.suggested_response = faq_json[best.k][2]
    ELSE /\ returned.intent /= FAQ_SPECIFIC
         /\ FromGeneric(returned, transcript)

\* C18: when a practice profile with FAQs is supplied and the best FAQ
\* similarity is at least 0.7, analyze_transcript returns faq_specific with
\* that score as confidence and the stored answer as response, whatever the
\* generic categories would reach; when the best score is below 0.7, or no
\* FAQs are supplied, the result is not faq_specific and its category,
\* confidence and keywords are those of the generic classification.
C18_FaqFirst ==
    Analyzed =>
        IF HasFaqs(call.practice_config) /\ ~Blank(call.transcript)
        THEN FaqFirst(result.returns, call.transcript, call.practice_config.faq_json,
                      BestFaq(FaqScores(call.transcript, call.practice_config.faq_json)))
        ELSE /\ result.returns.intent /= FAQ_SPECIFIC
             /\ FromGeneric(result.returns, call.transcript)

\* a question of the practice was recognised although a generic category
\* reaches a higher confidence than the similarity to the question
C18_Witness ==
    /\ Analyzed
    /\ call.transcript = T_your_hours
    /\ HasFaqs(call.practice_config)
    /\ result.returns.intent = FAQ_SPECIFIC
    /\ Less(result.returns.confidence, Ratio(8, 10))
    /\ Less(result.returns.confidence,
            best_intent(intent_patterns, normalize_text(call.transcript), 1,
                        no_intent).best_confidence)

\* analyze_transcript has answered from the generic categories
Generic == Analyzed /\ ~Blank(call.transcript) /\ result.returns.intent /= FAQ_SPECIFIC

\* max(0.6 * keyword_score + 0.4 * pattern_score, pattern_score)
Confidence(transcript, intent_data) ==
    LET keyword_score ==
            Ratio(Cardinality({k \in 1..Len(intent_data.keywords) :
                                  contains(transcript, lower(intent_data.keywords[k]))}),
                  Len(intent_data.keywords))
        pattern_score ==
            IF \E k \in 1..Len(intent_data.patterns) :
                  \E text \in intent_data.patterns[k] : contains(transcript, text)
            THEN Ratio(8, 10) ELSE Zero
        weighted == Plus(Times(Ratio(6, 10), keyword_score),
                         Times(Ratio(4, 10), pattern_score))
    IN  IF Less(weighted, pattern_score) THEN pattern_score ELSE weighted

\* the confidence of each category, in the declared order
IntentScores(transcript) ==
    {[k |-> k, confidence |-> Confidence(normalize_text(transcript), intent_patterns[k])] :
        k \in 1..Len(intent_patterns)}

\* the first of the categories with the highest confidence
FirstBest(scores) ==
    CHOOSE best \in scores :
        \A other \in scores :
            /\ AtMost(other.confidence, best.confidence)
            /\ other.k < best.k => Less(other.confidence, best.confidence)

\* the result on the generic path for the first of the best categories
FirstBestWins(returned, best) ==
    IF Same(best.confidence, Zero)
    THEN /\ returned.intent = UNKNOWN
         /\ Same(returned.confidence, Zero)
         /\ returned.suggested_response[1]
               = "I'm not sure I understand. Could you please tell me how I can help you today?"
    ELSE /\ returned.intent = intent_patterns[best.k].intent
         /\ Same(returned.confidence, best.confidence)

\* C19: on the generic path analyze_transcript returns the first category,
\* in the declared order, that attains the maximum over all categories of
\* max(0.6 * keyword_score + 0.4 * pattern_score, pattern_score); a later
\* category with an equal confidence never replaces an earlier one; when
\* every category scores 0 the result is unknown with confidence 0 and a
\* clarifying prompt.
C19_FirstBestIntent ==
    Generic => FirstBestWins(result.returns, FirstBest(IntentScores(call.transcript)))

\* two categories reached the same highest confidence, and the earlier one
\* was returned
C19_Witness ==
    /\ Generic
    /\ \E first \in IntentScores(call.transcript) :
          \E later \in IntentScores(call.transcript) :
             /\ first.k < later.k
             /\ Less(Zero, first.confidence)
             /\ Same(first.confidence, later.confidence)
             /\ Same(first.confidence, result.returns.confidence)
             /\ result.returns.intent = intent_patterns[first.k].intent

\* the result came from a question of the practice
FromFaq(returned) == returned.intent = FAQ_SPECIFIC

\* C20 as stated: tenant_specific is true if and only if the result came
\* from a practice-specific FAQ match rather than the generic rule set, and
\* faq_matched holds a question exactly in that case.
C20_FlagOnlyForFaq ==
    Analyzed =>
        /\ result.returns.tenant_specific <=> FromFaq(result.returns)
        /\ result.returns.faq_matched /= NoneVal <=> FromFaq(result.returns)

\* C20: tenant_specific is true if and only if a practice profile was
\* supplied and the transcript is not blank, which covers every FAQ match
\* and every result of the generic rule set made with a profile;
\* faq_matched holds a question, one of the practice's, exactly when the
\* result came from an FAQ match.
C20_FlagForProfile ==
    Analyzed =>
        /\ result.returns.tenant_specific
              <=> (~Blank(call.transcript) /\ ~IsNone(call.practice_config))
        /\ FromFaq(result.returns) => result.returns.tenant_specific
        /\ result.returns.faq_matched /= NoneVal <=> FromFaq(result.returns)
        /\ FromFaq(result.returns) =>
              \E k \in 1..Len(call.practice_config.faq_json) :
                 call.practice_config.faq_json[k][1] = result.returns.faq_matched

\* a result of the generic rule set, made with a profile, is marked as
\* tenant specific and names no question
C20_Witness ==
    /\ Generic
    /\ ~IsNone(call.practice_config)
    /\ result.returns.intent = HOURS_INQUIRY
    /\ result.returns.tenant_specific
    /\ result.returns.faq_matched = NoneVal

\* the keys of the entity mapping
EntityKeys == {"time", "day", "date", "insurance_provider", "service_type", "pain_level"}

\* C21: in every IntentResult returned by analyze_transcript, on the generic
\* path and on the FAQ path, the keys of extracted_entities are a subset of
\* {time, day, date, insurance_provider, service_type, pain_level}.
C21_EntityKeys ==
    Analyzed => DOMAIN result.returns.extracted_entities \subseteq EntityKeys

\* an error occurred inside analyze_transcript while it used the profile
ProfileFailed ==
    /\ call.op = "analyze_transcript"
    /\ analyze_transcript_raises(call.transcript, call.practice_config)

\* C22: if an internal error occurs while analyze_transcript uses the practice
\* profile, the engine still returns an IntentResult carrying the generic
\* intent classification and its response for the transcript, and no
\* exception reaches the caller.
C22_FallsBackToGeneric ==
    ProfileFailed =>
        /\ "raises" \notin DOMAIN result
        /\ "returns" \in DOMAIN result
        /\ FirstBestWins(result.returns, FirstBest(IntentScores(call.transcript)))
        /\ result.returns.suggested_response
              = analyze_transcript(call.transcript, NoPractice).suggested_response

\* vapi_webhook has handled a function-call event that has a transcript
Answered == call.op = "vapi_webhook" /\ Truthy(call.transcript)

\* the record store is unavailable or has failed
StoreFailed(store) ==
    \/ store.supabase = NoneVal
    \/ store.tenants.raises
    \/ store.calls /= "inserted"

\* the reply of the generic rule set, as the platform receives it
GenericReply(transcript) ==
    analyze_transcript(transcript, NoPractice).suggested_response

\* C23: when the record store is unavailable or errors (client not
\* initialized, practice lookup fails, or call-record insert fails), the
\* webhook handler still answers a function-call event that has a transcript
\* with the best computable response text (the generic intent reply when no
\* profile could be read) instead of failing the request, and the failure is
\* logged.
C23_AnswersWithoutStore ==
    Answered /\ StoreFailed(call.store) =>
        /\ "raises" \notin DOMAIN result
        /\ result.errors /= <<>>
        /\ (call.store.supabase = NoneVal \/ call.store.tenants.raises) =>
              result.returns.results[1].result = GenericReply(call.transcript)

\* the field a gather step collects
FieldOf(step, session) ==
    IF step = GATHER_NAME THEN session.customer_name
    ELSE IF step = GATHER_PHONE THEN session.customer_phone
    ELSE session.service_type

\* no utterance with nothing captured before, or an utterance that trims to
\* empty
NothingSaid(u, captured) ==
    IF Truthy(u) THEN ~HasContent(u) ELSE ~Truthy(captured)

C25_OnlyEndSessionRemoves ==
    [][/\ \A session_id \in DOMAIN active_sessions :
             session_id \notin DOMAIN active_sessions'
                => Called("end_session") /\ call'.session_id = session_id
       /\ (\/ Called("get_next_question")
           \/ Called("get_session_summary")
           \/ Called("get_active_sessions_count"))
             => DOMAIN active_sessions' = DOMAIN active_sessions
       /\ Called("get_active_sessions_count")
             => result'.returns = Cardinality(DOMAIN active_sessions')]_vars

\* a conversation that reached check_availability and one that was
\* abandoned are both still counted
C25_Witness ==
    /\ call.op = "get_active_sessions_count"
    /\ result.returns = 2
    /\ \E session_id \in DOMAIN active_sessions :
          active_sessions[session_id].current_step = CHECK_AVAILABILITY
    /\ \E session_id \in DOMAIN active_sessions :
          /\ active_sessions[session_id].current_step = GATHER_NAME
          /\ active_sessions[session_id].created_at < now

\* C26: every start_booking_session call returns an identifier that is not
\* already in the session mapping and increases get_active_sessions_count by
\* exactly one, also when two calls are made for the same call id within the
\* same clock second; no start call replaces or resets an existing session.
C26_StartIsFresh ==
    [][Called("start_booking_session") =>
          /\ result'.returns \notin DOMAIN active_sessions
          /\ get_active_sessions_count(active_sessions')
                = get_active_sessions_count(active_sessions) + 1
          /\ \A session_id \in DOMAIN active_sessions :
                active_sessions'[session_id] = active_sessions[session_id]]_vars

\* the fields that were collected before the session came to its step
CollectedSoFar(session) ==
    /\ session.current_step \in {GATHER_PHONE, GATHER_SERVICE, CONFIRM_DETAILS,
                                 CHECK_AVAILABILITY}
          => Truthy(session.customer_name)
    /\ session.current_step \in {GATHER_SERVICE, CONFIRM_DETAILS, CHECK_AVAILABILITY}
          => Truthy(session.customer_phone)
    /\ session.current_step \in {CONFIRM_DETAILS, CHECK_AVAILABILITY}
          => Truthy(session.service_type)

\* C27: in every reachable state of a session accessed by sequential calls,
\* current_step in {gather_phone, gather_service, confirm_details,
\* check_availability} implies customer_name is non-empty, current_step in
\* {gather_service, confirm_details, check_availability} implies
\* customer_phone is non-empty, and current_step in {confirm_details,
\* check_availability} implies service_type is non-empty.
C27_CollectedBeforeStep ==
    \A session_id \in DOMAIN active_sessions :
       CollectedSoFar(active_sessions[session_id])

\* after a correction of the name the session is asked for the phone number
\* again, with the new name and the service it had
C27_Witness ==
    /\ Advanced
    /\ Current.current_step = GATHER_PHONE
    /\ Truthy(Current.customer_name)
    /\ Truthy(Current.customer_phone)
    /\ Truthy(Current.service_type)

\* the reply is a confirmation summary that follows a correction of an
\* earlier one
SummaryAfterCorrection ==
    /\ call.op = "get_next_question"
    /\ "confirmation_data" \in DOMAIN result
    /\ "earlier_summary" \in DOMAIN call
    /\ call.earlier_summary /= NoSummary

\* C28: after a correction in confirm_details regresses the session to the
\* gather step of one field, the other two collected fields keep their
\* values until the session next reaches confirm_details: with a caller who
\* answers every prompt with a non-empty utterance, only the field named in
\* the correction differs between the two confirmation summaries.
C28_OnlyNamedFieldDiffers ==
    SummaryAfterCorrection =>
        /\ call.corrected /= GATHER_NAME
              => call.summary.name = call.earlier_summary.name
        /\ call.corrected /= GATHER_PHONE
              => call.summary.phone = call.earlier_summary.phone
        /\ call.corrected /= GATHER_SERVICE
              => call.summary.service = call.earlier_summary.service

\* the three collected fields of a session
Fields == {"customer_name", "customer_phone", "service_type"}

\* C29: once customer_name, customer_phone or service_type of a session
\* holds a non-empty value, no get_next_question call sets that field back
\* to an empty value; a later utterance can only replace it with another
\* non-empty value.
C29_NeverEmptiedAgain ==
    [][Called("get_next_question") /\ call'.session_id \in DOMAIN active_sessions
          => \A field \in Fields :
                Truthy(Before[field]) => Truthy(After[field])]_vars

\* the sessions stored under another id than the one the call names
Others == DOMAIN active_sessions \ {call'.session_id}

\* C30: operations addressed to one session id (get_next_question,
\* get_session_summary, end_session) never change the step, collected fields
\* or timestamps of any session stored under a different id, and
\* get_session_summary and get_active_sessions_count change no session and
\* no mapping entry at all.
C30_OtherSessionsUntouched ==
    [][/\ (\/ Called("get_next_question")
           \/ Called("get_session_summary")
           \/ Called("end_session"))
             => \A other \in Others :
                   /\ other \in DOMAIN active_sessions'
                   /\ active_sessions'[other] = active_sessions[other]
       /\ (\/ Called("get_session_summary")
           \/ Called("get_active_sessions_count"))
             => active_sessions' = active_sessions]_vars

\* an answer was applied to one session at a later time than the last
\* change of another session, which still holds its own step and name
C30_Witness ==
    /\ Advanced
    /\ Truthy(call.user_response)
    /\ Current.updated_at = now
    /\ \E other \in DOMAIN active_sessions \ {call.session_id} :
          /\ active_sessions[other].updated_at < now
          /\ active_sessions[other].current_step /= Current.current_step
          /\ active_sessions[other].current_step /= INITIAL_INTENT

====
